---- MODULE Spec2Model ----
(***************************************************************************)
(* Device-bound authentication and session lifecycle of the Express        *)
(* server (server/index.ts, server/accessRules.ts, server/cleanupExpired). *)
(* Every request is a process; each step of a process is one database      *)
(* query (an await) of its handler, so concurrent requests interleave      *)
(* between queries exactly as the handlers do.                             *)
(*                                                                         *)
(* Left out: the columns no route reads back to decide anything (ip,       *)
(* user_agent, login_time, last_seen, created_at) and the JWT's own expiry *)
(* (a token that verifyAuthToken rejects is the missing-token case, 401).  *)
(*                                                                         *)
(* The loginRateLimit middleware in front of /auth/login and its Map are   *)
(* followed by SpecRate only; the other specifications take the login      *)
(* handler from its first query and leave the limiter aside (Aside).       *)
(*                                                                         *)
(* The count query that ends cleanupExpiredUsers in deactivate mode is     *)
(* merged into CleanupExpired and followed as a query of its own by        *)
(* SpecCleanup. Queries that throw are followed by SpecStorage and         *)
(* SpecAudit.                                                              *)
(*                                                                         *)
(* OnayClient.qrStart (server/onayClient.ts) shares nothing with the       *)
(* routes above but the event loop: SpecOnay follows its callers, its      *)
(* upstream tasks and its Map qrStartInFlight; every step is the code      *)
(* between two awaits.                                                     *)
(*                                                                         *)
(* No route reads the admin_actions table. The handlers that write it are  *)
(* given in two parts, the queries on users and sessions and the           *)
(* logAdminAction call that follows; SpecAdmin follows the table, the      *)
(* other specifications leave it aside (NoAudit).                          *)
(***************************************************************************)
EXTENDS Integers, FiniteSets, Sequences, TLC

\* ---- bounds -------------------------------------------------------------
MaxTime == 2
MaxSessions == 2
MaxDeviceSessions == 3
MaxLog == 1             \* rows of admin_actions followed by SpecAdmin
MaxUserSerial == 3      \* values the serial of users.id gives out
MaxDate == 4            \* SpecExtend: the clock and the stored expiries start in 0 .. MaxDate
MaxTasks == 3           \* SpecOnay: upstream tasks qrStart starts

\* ---- value domains ------------------------------------------------------
NULL == "null"          \* SQL NULL in a device_id column
NullTime == -1          \* SQL NULL in an expires_at column
Devices == {"A", "B"}
RequestDevices == Devices \cup {""}   \* "" is a missing or blank deviceId
Roles == {"admin", "user"}
UserIds == {1, 2}
Procs == {1, 2}
Times == 0 .. MaxTime
ExpiryDates == {1}
Expiries == {NullTime} \cup ExpiryDates

NullId == 0             \* SQL NULL in a column that references users(id)
InvalidTime == -2       \* an expires_at input that new Date() cannot parse

\* Strings that the code takes apart are sequences of characters.
RawLogins == {<<"A", " ">>, <<"b">>, <<" ", "B">>, <<" ">>}
PasswordLengths == {0, 5, 6}
RoleInputs == {"admin", "owner"}   \* "owner": any value other than "admin"
ExpiryInputs == Expiries \cup {InvalidTime}

ACCOUNT_EXPIRED_MESSAGE == "ACCOUNT_EXPIRED"
DEVICE_IN_USE_MESSAGE == "DEVICE_IN_USE"

VARIABLES
    users,      \* table users: id -> row (exists = FALSE once deleted)
    sessions,   \* table sessions: set of rows
    nextSessionId, \* the serial of sessions.id
    tokens,     \* every token signAuthToken has issued
    now,        \* the clock (Date.now() and SQL NOW())
    proc,       \* the requests in flight: position and locals of each
    admin_actions, \* table admin_actions: the rows in insertion order
    logins,     \* column users.login: id -> stored login
    nextUserId, \* the serial of users.id
    loginAttempts, \* the Map loginAttempts: key -> {count, resetAt}
    reqIp,      \* req.ip of each login request in flight
    reply,      \* what a response carries besides status and error
    attempts,   \* the login requests received so far, in order (access log)
    qrStartInFlight, \* the Map qrStartInFlight: terminal -> task (promise)
    qrTasks,    \* the upstream tasks qrStart has started, in order of creation
    qrCalls     \* the calls of qrStart: position and result of each caller

vars == <<users, sessions, nextSessionId, tokens, now, proc,
          admin_actions, logins, nextUserId,
          loginAttempts, reqIp, reply, attempts,
          qrStartInFlight, qrTasks, qrCalls>>

Greatest(a, b) == IF a >= b THEN a ELSE b

\* ---- server/index.ts: input normalisation -----------------------------------
toLowerCase(c) == IF c = "A" THEN "a" ELSE IF c = "B" THEN "b" ELSE c

RECURSIVE trimStart(_)
trimStart(str) ==
    IF str # <<>> /\ Head(str) = " " THEN trimStart(Tail(str)) ELSE str

RECURSIVE trimEnd(_)
trimEnd(str) ==
    IF str # <<>> /\ str[Len(str)] = " "
    THEN trimEnd(SubSeq(str, 1, Len(str) - 1)) ELSE str

trim(str) == trimEnd(trimStart(str))

normalizeLogin(value) ==
    [i \in 1 .. Len(trim(value)) |-> toLowerCase(trim(value)[i])]

\* normalizeLogin without the lower-casing.
normalizeLoginTrimOnly(value) == trim(value)

parseExpiryInput(value) == IF value = NullTime THEN NullTime ELSE value

\* ---- server/accessRules.ts ------------------------------------------------
parseExpiry(expiresAt) ==
    IF expiresAt = NullTime THEN NullTime ELSE expiresAt

\* isExpiredAt with "<" for "<=": an account is still valid at its expiry instant.
isExpiredAtStrict(expiresAt, t) ==
    LET parsed == parseExpiry(expiresAt)
    IN  IF parsed = NullTime THEN FALSE ELSE parsed < t

isExpiredAt(expiresAt, t) ==
    LET parsed == parseExpiry(expiresAt)
    IN  IF parsed = NullTime THEN FALSE ELSE parsed <= t

Decision(ok, bind, status, message) ==
    [ok |-> ok, shouldBindDevice |-> bind, status |-> status, message |-> message]

NoDecision == Decision(FALSE, FALSE, 0, "none")

\* evaluateDeviceAccess without the final device comparison: any device gets in.
evaluateDeviceAccessAnyDevice(userDeviceId, requestDeviceId, expiresAt, role, t) ==
    IF isExpiredAt(expiresAt, t)
    THEN Decision(FALSE, FALSE, 410, ACCOUNT_EXPIRED_MESSAGE)
    ELSE IF userDeviceId = NULL
    THEN Decision(TRUE, TRUE, 200, "")
    ELSE Decision(TRUE, FALSE, 200, "")

evaluateDeviceAccess(userDeviceId, requestDeviceId, expiresAt, role, t) ==
    IF isExpiredAt(expiresAt, t)
    THEN Decision(FALSE, FALSE, 410, ACCOUNT_EXPIRED_MESSAGE)
    ELSE IF userDeviceId = NULL
    THEN Decision(TRUE, TRUE, 200, "")
    ELSE IF userDeviceId = requestDeviceId
    THEN Decision(TRUE, FALSE, 200, "")
    ELSE Decision(FALSE, FALSE, 403, DEVICE_IN_USE_MESSAGE)

\* ---- rows and request locals ----------------------------------------------
UserRow(id, role, device, expires) ==
    [id |-> id, exists |-> TRUE, role |-> role, device_id |-> device, expires_at |-> expires]

DeletedUser(id) ==
    [id |-> id, exists |-> FALSE, role |-> "user", device_id |-> NULL, expires_at |-> NullTime]

NoUser == DeletedUser(0)

AuthPayload(userId, role, deviceId, sessionId) ==
    [userId |-> userId, role |-> role, deviceId |-> deviceId, sessionId |-> sessionId]

NoToken == AuthPayload(0, "user", NULL, 0)

IdleProc ==
    [pc |-> "idle", op |-> "none", deviceId |-> NULL, user |-> NoUser,
     decision |-> NoDecision, auth |-> NoToken, target |-> 0,
     status |-> 0, message |-> "none"]

Free(p) == proc[p].pc \in {"idle", "done"}

\* A new request takes the first free slot of the request table.
Accepts(p) == Free(p) /\ \A q \in Procs : q < p => ~Free(q)

\* The response ends the request: its locals are gone, the response stays visible.
Respond(p, status, message) ==
    [IdleProc EXCEPT !.pc = "done", !.op = proc[p].op, !.decision = proc[p].decision,
                     !.status = status, !.message = message]

RespondAs(p, op, status, message) ==
    [Respond(p, status, message) EXCEPT !.op = op]

\* ---- server/index.ts: requireAuth / requireAdmin ----------------------------
SessionAuthRows(payload) ==
    {s \in sessions : s.id = payload.sessionId /\ users[s.user_id].exists}

AuthResult(status, message, auth) ==
    [status |-> status, message |-> message, auth |-> auth]

\* requireAuth without the is_active check.
requireAuthInactiveToo(payload) ==
    IF payload = NoToken THEN AuthResult(401, "Unauthorized", NoToken)
    ELSE IF SessionAuthRows(payload) = {}
    THEN AuthResult(401, "Session not found", NoToken)
    ELSE LET s == CHOOSE r \in SessionAuthRows(payload) : TRUE
             u == users[s.user_id]
         IN  IF s.user_id # payload.userId
             THEN AuthResult(401, "Invalid session", NoToken)
             ELSE IF u.expires_at # NullTime /\ u.expires_at <= now
             THEN AuthResult(410, ACCOUNT_EXPIRED_MESSAGE, NoToken)
             ELSE IF u.role # "admin" /\ u.device_id # NULL
                     /\ u.device_id # payload.deviceId
             THEN AuthResult(403, DEVICE_IN_USE_MESSAGE, NoToken)
             ELSE AuthResult(200, "", [payload EXCEPT
                      !.role = u.role,
                      !.deviceId = IF u.role = "admin" THEN payload.deviceId
                                   ELSE IF u.device_id # NULL THEN u.device_id
                                   ELSE payload.deviceId])

\* requireAuth without the expires_at check.
requireAuthNoExpiry(payload) ==
    IF payload = NoToken THEN AuthResult(401, "Unauthorized", NoToken)
    ELSE IF SessionAuthRows(payload) = {}
    THEN AuthResult(401, "Session not found", NoToken)
    ELSE LET s == CHOOSE r \in SessionAuthRows(payload) : TRUE
             u == users[s.user_id]
         IN  IF s.user_id # payload.userId
             THEN AuthResult(401, "Invalid session", NoToken)
             ELSE IF ~s.is_active
             THEN AuthResult(401, "Session inactive", NoToken)
             ELSE IF u.role # "admin" /\ u.device_id # NULL
                     /\ u.device_id # payload.deviceId
             THEN AuthResult(403, DEVICE_IN_USE_MESSAGE, NoToken)
             ELSE AuthResult(200, "", [payload EXCEPT
                      !.role = u.role,
                      !.deviceId = IF u.role = "admin" THEN payload.deviceId
                                   ELSE IF u.device_id # NULL THEN u.device_id
                                   ELSE payload.deviceId])

\* requireAuth that attaches the token's payload as it came (req.auth = payload),
\* so the role is the token's claim.
requireAuthTokenRole(payload) ==
    IF payload = NoToken THEN AuthResult(401, "Unauthorized", NoToken)
    ELSE IF SessionAuthRows(payload) = {}
    THEN AuthResult(401, "Session not found", NoToken)
    ELSE LET s == CHOOSE r \in SessionAuthRows(payload) : TRUE
             u == users[s.user_id]
         IN  IF s.user_id # payload.userId
             THEN AuthResult(401, "Invalid session", NoToken)
             ELSE IF ~s.is_active
             THEN AuthResult(401, "Session inactive", NoToken)
             ELSE IF u.expires_at # NullTime /\ u.expires_at <= now
             THEN AuthResult(410, ACCOUNT_EXPIRED_MESSAGE, NoToken)
             ELSE IF u.role # "admin" /\ u.device_id # NULL
                     /\ u.device_id # payload.deviceId
             THEN AuthResult(403, DEVICE_IN_USE_MESSAGE, NoToken)
             ELSE AuthResult(200, "", payload)

requireAuth(payload) ==
    IF payload = NoToken THEN AuthResult(401, "Unauthorized", NoToken)
    ELSE IF SessionAuthRows(payload) = {}
    THEN AuthResult(401, "Session not found", NoToken)
    ELSE LET s == CHOOSE r \in SessionAuthRows(payload) : TRUE
             u == users[s.user_id]
         IN  IF s.user_id # payload.userId
             THEN AuthResult(401, "Invalid session", NoToken)
             ELSE IF ~s.is_active
             THEN AuthResult(401, "Session inactive", NoToken)
             ELSE IF u.expires_at # NullTime /\ u.expires_at <= now
             THEN AuthResult(410, ACCOUNT_EXPIRED_MESSAGE, NoToken)
             ELSE IF u.role # "admin" /\ u.device_id # NULL
                     /\ u.device_id # payload.deviceId
             THEN AuthResult(403, DEVICE_IN_USE_MESSAGE, NoToken)
             ELSE AuthResult(200, "", [payload EXCEPT
                      !.role = u.role,
                      !.deviceId = IF u.role = "admin" THEN payload.deviceId
                                   ELSE IF u.device_id # NULL THEN u.device_id
                                   ELSE payload.deviceId])

\* requireAdmin that lets every authenticated request through.
requireAdminAnyone(auth) == auth # NoToken

requireAdmin(auth) == auth # NoToken /\ auth.role = "admin"

AdminOps == {"createUser", "listUsers", "reset", "deleteUser", "extend",
             "listSessions", "deleteSession", "cleanup"}

\* ---- server/index.ts: loginRateLimit ---------------------------------------------
\* The clock of the limiter counts milliseconds.
Sources == {"ip1", "ip2"}        \* req.ip || "unknown"
loginRateLimitWindowMs == 2000   \* LOGIN_RATE_LIMIT_WINDOW_MS
loginRateLimitMax == 2           \* LOGIN_RATE_LIMIT_MAX
RateLimitedMessage == "Too many login attempts"

NoEntry == [count |-> 0, resetAt |-> 0]   \* loginAttempts.get(key) is undefined

ceil(a, b) == IF a % b = 0 THEN a \div b ELSE (a \div b) + 1

\* Math.max(1, Math.ceil((existing.resetAt - now) / 1000))
retryInSeconds(existing, t) ==
    Greatest(1, ceil(existing.resetAt - t, 1000))

RateOutcome(next, entry, retry) == [next |-> next, entry |-> entry, retryInSeconds |-> retry]

\* loginRateLimit that starts a new window only when there is no entry: a lapsed
\* window keeps counting.
loginRateLimitNoLapse(key) ==
    LET existing == loginAttempts[key]
        counted == [existing EXCEPT !.count = @ + 1]
    IN  IF existing = NoEntry
        THEN RateOutcome(TRUE, [count |-> 1, resetAt |-> now + loginRateLimitWindowMs], 0)
        ELSE IF counted.count > loginRateLimitMax
        THEN RateOutcome(FALSE, counted, retryInSeconds(existing, now))
        ELSE RateOutcome(TRUE, counted, 0)

\* loginRateLimit with ">=" for ">": the attempt that reaches the maximum is
\* already turned away.
loginRateLimitOneLess(key) ==
    LET existing == loginAttempts[key]
        counted == [existing EXCEPT !.count = @ + 1]
    IN  IF existing = NoEntry \/ existing.resetAt < now
        THEN RateOutcome(TRUE, [count |-> 1, resetAt |-> now + loginRateLimitWindowMs], 0)
        ELSE IF counted.count >= loginRateLimitMax
        THEN RateOutcome(FALSE, counted, retryInSeconds(existing, now))
        ELSE RateOutcome(TRUE, counted, 0)

\* The middleware for a request from key: whether next() is called, the entry it
\* leaves in loginAttempts, the Retry-After it sends with a 429.
loginRateLimit(key) ==
    LET existing == loginAttempts[key]
        counted == [existing EXCEPT !.count = @ + 1]
    IN  IF existing = NoEntry \/ existing.resetAt < now
        THEN RateOutcome(TRUE, [count |-> 1, resetAt |-> now + loginRateLimitWindowMs], 0)
        ELSE IF counted.count > loginRateLimitMax
        THEN RateOutcome(FALSE, counted, retryInSeconds(existing, now))
        ELSE RateOutcome(TRUE, counted, 0)

\* thrown: the response came from a catch block, after a query threw
\* warned: logAdminAction caught an error (console.warn) on the way to the response
NoReply == [retryInSeconds |-> 0, expiredUsers |-> 0, affectedSessions |-> 0,
            thrown |-> FALSE, warned |-> FALSE]

\* ---- server/onayClient.ts: the state of OnayClient.qrStart -----------------------
Callers == {1, 2, 3}
RawTerminals == {<<"T">>, <<" ", "T">>, <<"U">>, <<" ">>}
TerminalKeys == {trim(r) : r \in RawTerminals} \ {<<>>}
NoTask == 0             \* Map.get answers undefined

Task(terminal, state) == [terminal |-> terminal, state |-> state]

\* pc: "idle" no call yet, "creator" awaiting the task it created, "joined"
\* returned the task it found in the Map, "settled" its promise has settled.
Call(pc, task, outcome, error) ==
    [pc |-> pc, task |-> task, outcome |-> outcome, error |-> error]

NoCall == Call("idle", NoTask, "none", "")

\* The requests of the Express routes do not call qrStart.
Upstream == UNCHANGED <<qrStartInFlight, qrTasks, qrCalls>>

UpstreamInit ==
    /\ qrStartInFlight = [k \in TerminalKeys |-> NoTask]
    /\ qrTasks = <<>>
    /\ qrCalls = [c \in Callers |-> NoCall]

\* The specification follows neither the limiter nor the response bodies nor qrStart.
Aside == UNCHANGED <<loginAttempts, reqIp, reply, attempts>> /\ Upstream

AsideInit ==
    /\ loginAttempts = [k \in Sources |-> NoEntry]
    /\ reqIp = [p \in Procs |-> ""]
    /\ reply = [p \in Procs |-> NoReply]
    /\ attempts = <<>>
    /\ UpstreamInit

\* ---- initial state ----------------------------------------------------------
\* The bootstrap admin (id 1) and one user-role account (id 2).
RoleOf(id) == IF id = 1 THEN "admin" ELSE "user"
SeedLogin(id) == IF id = 1 THEN <<"a">> ELSE <<"b">>

Init ==
    /\ users = [id \in UserIds |->
                  UserRow(id, RoleOf(id), NULL, NullTime)]
    /\ sessions = {}
    /\ nextSessionId = 1
    /\ tokens = {}
    /\ now = 0
    /\ proc = [p \in Procs |-> IdleProc]
    /\ admin_actions = <<>>
    /\ logins = [id \in UserIds |-> SeedLogin(id)]
    /\ nextUserId = 3
    /\ AsideInit

\* ---- the clock ----------------------------------------------------------------
Tick ==
    /\ now < MaxTime
    /\ now' = now + 1
    /\ UNCHANGED <<users, sessions, nextSessionId, tokens, proc, admin_actions, logins, nextUserId>>

\* ---- POST /auth/login ---------------------------------------------------------
\* SELECT ... FROM users WHERE login = $1
LoginSelect(p, u, d) ==
    /\ Accepts(p)
    /\ proc' = [proc EXCEPT ![p] =
          IF d = ""
          THEN [IdleProc EXCEPT !.op = "login", !.pc = "done", !.status = 400,
                   !.message = "Fields login, password and deviceId are required"]
          ELSE IF ~users[u].exists
          THEN [IdleProc EXCEPT !.op = "login", !.pc = "done",
                                !.status = 401, !.message = "Invalid credentials"]
          ELSE [IdleProc EXCEPT !.op = "login", !.deviceId = d, !.pc = "l_verify",
                                !.user = users[u]]]
    /\ UNCHANGED <<users, sessions, nextSessionId, tokens, now, admin_actions, logins, nextUserId>>

\* LoginEvaluate with the two checks swapped: evaluateDeviceAccess answers before
\* the password is looked at.
LoginEvaluateAccessFirst(p, isPasswordValid) ==
    /\ proc[p].pc = "l_verify"
    /\ LET me == proc[p]
           decision == evaluateDeviceAccess(me.user.device_id, me.deviceId,
                                            me.user.expires_at, me.user.role, now)
       IN  proc' = [proc EXCEPT ![p] =
             IF ~decision.ok
             THEN [Respond(p, decision.status, decision.message) EXCEPT
                      !.decision = decision]
             ELSE IF ~isPasswordValid
             THEN Respond(p, 401, "Invalid credentials")
             ELSE [me EXCEPT !.decision = decision,
                      !.pc = IF decision.shouldBindDevice THEN "l_bind" ELSE "l_insert"]]
    /\ UNCHANGED <<users, sessions, nextSessionId, tokens, now, admin_actions, logins, nextUserId>>

\* verifyPassword, then evaluateDeviceAccess on the row read by LoginSelect
LoginEvaluate(p, isPasswordValid) ==
    /\ proc[p].pc = "l_verify"
    /\ LET me == proc[p]
           decision == evaluateDeviceAccess(me.user.device_id, me.deviceId,
                                            me.user.expires_at, me.user.role, now)
       IN  proc' = [proc EXCEPT ![p] =
             IF ~isPasswordValid
             THEN Respond(p, 401, "Invalid credentials")
             ELSE IF ~decision.ok
             THEN [Respond(p, decision.status, decision.message) EXCEPT
                      !.decision = decision]
             ELSE [me EXCEPT !.decision = decision,
                      !.pc = IF decision.shouldBindDevice THEN "l_bind" ELSE "l_insert"]]
    /\ UNCHANGED <<users, sessions, nextSessionId, tokens, now, admin_actions, logins, nextUserId>>

\* LoginBind whose UPDATE lacks "AND device_id IS NULL".
LoginBindUnconditional(p) ==
    /\ proc[p].pc = "l_bind"
    /\ LET me == proc[p]
           id == me.user.id
           bindCount == IF users[id].exists THEN 1 ELSE 0
       IN  IF bindCount > 0
           THEN /\ users' = [users EXCEPT ![id].device_id = me.deviceId]
                /\ proc' = [proc EXCEPT ![p] =
                       [me EXCEPT !.user = users'[id], !.pc = "l_insert"]]
           ELSE /\ users' = users
                /\ proc' = [proc EXCEPT ![p].pc = "l_refresh"]
    /\ UNCHANGED <<sessions, nextSessionId, tokens, now, admin_actions, logins, nextUserId>>

\* UPDATE users SET device_id = $1 WHERE id = $2 AND device_id IS NULL RETURNING ...
LoginBind(p) ==
    /\ proc[p].pc = "l_bind"
    /\ LET me == proc[p]
           id == me.user.id
           bindCount == IF users[id].exists /\ users[id].device_id = NULL THEN 1 ELSE 0
       IN  IF bindCount > 0
           THEN /\ users' = [users EXCEPT ![id].device_id = me.deviceId]
                /\ proc' = [proc EXCEPT ![p] =
                       [me EXCEPT !.user = users'[id], !.pc = "l_insert"]]
           ELSE /\ users' = users
                /\ proc' = [proc EXCEPT ![p].pc = "l_refresh"]
    /\ UNCHANGED <<sessions, nextSessionId, tokens, now, admin_actions, logins, nextUserId>>

\* LoginRefresh that re-reads the user but does not compare the device.
LoginRefreshNoCheck(p) ==
    /\ proc[p].pc = "l_refresh"
    /\ LET me == proc[p]
           id == me.user.id
       IN  proc' = [proc EXCEPT ![p] =
             IF ~users[id].exists
             THEN Respond(p, 401, "User not found")
             ELSE [me EXCEPT !.user = users[id], !.pc = "l_insert"]]
    /\ UNCHANGED <<users, sessions, nextSessionId, tokens, now, admin_actions, logins, nextUserId>>

\* SELECT ... FROM users WHERE id = $1 (after a bind that touched no row)
LoginRefresh(p) ==
    /\ proc[p].pc = "l_refresh"
    /\ LET me == proc[p]
           id == me.user.id
       IN  proc' = [proc EXCEPT ![p] =
             IF ~users[id].exists
             THEN Respond(p, 401, "User not found")
             ELSE IF users[id].device_id # me.deviceId
             THEN Respond(p, 403, DEVICE_IN_USE_MESSAGE)
             ELSE [me EXCEPT !.user = users[id], !.pc = "l_insert"]]
    /\ UNCHANGED <<users, sessions, nextSessionId, tokens, now, admin_actions, logins, nextUserId>>

\* LoginInsert that signs the token with the serial's next value instead of the
\* id the INSERT returned.
LoginInsertNextSerial(p, cap) ==
    /\ proc[p].pc = "l_insert"
    /\ LET me == proc[p]
           id == me.user.id
       IN  /\ users[id].exists
           /\ nextSessionId <= cap
           /\ sessions' = sessions \cup
                 {[id |-> nextSessionId, user_id |-> id,
                   device_id |-> me.deviceId, is_active |-> TRUE]}
           /\ nextSessionId' = nextSessionId + 1
           /\ tokens' = tokens \cup
                 {AuthPayload(id, me.user.role, me.deviceId, nextSessionId + 1)}
           /\ proc' = [proc EXCEPT ![p] = Respond(p, 200, "")]
    /\ UNCHANGED <<users, now, admin_actions, logins, nextUserId>>

\* LoginInsert as an upsert: a session row the user already has for the device is
\* switched back on and its id signed into the new token.
LoginInsertReusing(p, cap) ==
    /\ proc[p].pc = "l_insert"
    /\ LET me == proc[p]
           id == me.user.id
           old == {s \in sessions : s.user_id = id /\ s.device_id = me.deviceId}
       IN  IF ~users[id].exists
           THEN /\ proc' = [proc EXCEPT ![p] = Respond(p, 500, "Login failed")]
                /\ UNCHANGED <<sessions, nextSessionId, tokens>>
           ELSE IF old # {}
           THEN LET row == CHOOSE s \in old : TRUE
                IN  /\ sessions' = (sessions \ {row}) \cup {[row EXCEPT !.is_active = TRUE]}
                    /\ nextSessionId' = nextSessionId
                    /\ tokens' = tokens \cup
                          {AuthPayload(id, me.user.role, me.deviceId, row.id)}
                    /\ proc' = [proc EXCEPT ![p] = Respond(p, 200, "")]
           ELSE /\ nextSessionId <= cap
                /\ sessions' = sessions \cup
                      {[id |-> nextSessionId, user_id |-> id,
                        device_id |-> me.deviceId, is_active |-> TRUE]}
                /\ nextSessionId' = nextSessionId + 1
                /\ tokens' = tokens \cup
                      {AuthPayload(id, me.user.role, me.deviceId, nextSessionId)}
                /\ proc' = [proc EXCEPT ![p] = Respond(p, 200, "")]
    /\ UNCHANGED <<users, now, admin_actions, logins, nextUserId>>

\* INSERT INTO sessions ... RETURNING id; signAuthToken; 200
LoginInsert(p, cap) ==
    /\ proc[p].pc = "l_insert"
    /\ LET me == proc[p]
           id == me.user.id
       IN  IF ~users[id].exists
           THEN \* foreign key violation: the catch block answers 500
                /\ proc' = [proc EXCEPT ![p] = Respond(p, 500, "Login failed")]
                /\ UNCHANGED <<sessions, nextSessionId, tokens>>
           ELSE /\ nextSessionId <= cap
                /\ sessions' = sessions \cup
                      {[id |-> nextSessionId, user_id |-> id,
                        device_id |-> me.deviceId, is_active |-> TRUE]}
                /\ nextSessionId' = nextSessionId + 1
                /\ tokens' = tokens \cup
                      {AuthPayload(id, me.user.role, me.deviceId, nextSessionId)}
                /\ proc' = [proc EXCEPT ![p] =
                      Respond(p, 200, "")]
    /\ UNCHANGED <<users, now, admin_actions, logins, nextUserId>>

\* ---- POST /auth/login behind loginRateLimit ---------------------------------------
MaxAttempts == 4        \* login requests received
MaxClock == 2500        \* the limiter's clock stops here

Elapse ==
    /\ now < MaxClock
    /\ now' = now + 500
    /\ UNCHANGED <<users, sessions, nextSessionId, tokens, proc, admin_actions, logins,
                   nextUserId, loginAttempts, reqIp, reply, attempts>>
    /\ Upstream

Attempt(key, at, next) == [ip |-> key, at |-> at, next |-> next]

\* A request arrives: loginRateLimit, then (next()) the handler up to its first query.
RateLimitedLogin(p, key, u, d) ==
    LET r == loginRateLimit(key)
    IN  /\ Accepts(p)
        /\ Len(attempts) < MaxAttempts
        /\ loginAttempts' = [loginAttempts EXCEPT ![key] = r.entry]
        /\ attempts' = Append(attempts, Attempt(key, now, r.next))
        /\ Upstream
        /\ IF r.next
           THEN /\ LoginSelect(p, u, d)
                /\ reqIp' = [reqIp EXCEPT ![p] = IF proc'[p].pc = "done" THEN "" ELSE key]
                /\ reply' = [reply EXCEPT ![p] = NoReply]
           ELSE /\ proc' = [proc EXCEPT ![p] =
                      [IdleProc EXCEPT !.op = "login", !.pc = "done", !.status = 429,
                                       !.message = RateLimitedMessage]]
                /\ reqIp' = [reqIp EXCEPT ![p] = ""]
                /\ reply' = [reply EXCEPT ![p] =
                              [NoReply EXCEPT !.retryInSeconds = r.retryInSeconds]]
                /\ UNCHANGED <<users, sessions, nextSessionId, tokens, now, admin_actions,
                               logins, nextUserId>>

\* The steps of the handler before the session INSERT do not touch the Map.
KeepsLimiter(p) ==
    /\ reqIp' = [reqIp EXCEPT ![p] = IF proc'[p].pc = "done" THEN "" ELSE @]
    /\ UNCHANGED <<loginAttempts, reply, attempts>>
    /\ Upstream

LoginVerify(p, isPasswordValid) == LoginEvaluate(p, isPasswordValid) /\ KeepsLimiter(p)

LoginBinding(p) == LoginBind(p) /\ KeepsLimiter(p)

\* The INSERT of the session, the token, loginAttempts.delete(req.ip), the response.
LoginFinish(p, cap) ==
    /\ LoginInsert(p, cap)
    /\ loginAttempts' = IF proc'[p].status = 200
                        THEN [loginAttempts EXCEPT ![reqIp[p]] = NoEntry]
                        ELSE loginAttempts
    /\ reqIp' = [reqIp EXCEPT ![p] = ""]
    /\ UNCHANGED <<reply, attempts>>
    /\ Upstream

\* ---- authenticated routes: requireAuth [, requireAdmin], then the handler ------
\* requireAuth: the session lookup decides; the route's own first query comes later.
AuthStart(p, t) ==
    /\ Accepts(p)
    /\ LET r == requireAuth(t)
           me == [IdleProc EXCEPT !.op = "auth"]
       IN  proc' = [proc EXCEPT ![p] =
             IF r.status # 200
             THEN [me EXCEPT !.pc = "done", !.status = r.status, !.message = r.message]
             ELSE [me EXCEPT !.pc = "handler", !.auth = r.auth]]
    /\ UNCHANGED <<users, sessions, nextSessionId, tokens, now, admin_actions, logins, nextUserId>>

\* requireAdmin on an admin route, for a request that passed requireAuth
AdminDenied(p) ==
    /\ proc[p].pc = "handler"
    /\ ~requireAdmin(proc[p].auth)
    /\ proc' = [proc EXCEPT ![p] = RespondAs(p, "admin", 403, "Admin access required")]
    /\ UNCHANGED <<users, sessions, nextSessionId, tokens, now, admin_actions, logins, nextUserId>>

\* Request p passed the middleware of route op and is about to run its first query.
Handling(p, op) ==
    proc[p].pc = "handler" /\ (op \in AdminOps => requireAdmin(proc[p].auth))

DeactivateWhere(rows) ==
    {IF s \in rows /\ s.is_active THEN [s EXCEPT !.is_active = FALSE] ELSE s : s \in sessions}

\* GET /auth/me
Me(p) ==
    /\ Handling(p, "me")
    /\ proc' = [proc EXCEPT ![p] =
          IF users[proc[p].auth.userId].exists
          THEN RespondAs(p, "me", 200, "") ELSE RespondAs(p, "me", 404, "User not found")]
    /\ UNCHANGED <<users, sessions, nextSessionId, tokens, now, admin_actions, logins, nextUserId>>

\* POST /auth/logout
Logout(p) ==
    /\ Handling(p, "logout")
    /\ sessions' = DeactivateWhere({s \in sessions : s.id = proc[p].auth.sessionId})
    /\ proc' = [proc EXCEPT ![p] = RespondAs(p, "logout", 200, "")]
    /\ UNCHANGED <<users, nextSessionId, tokens, now, admin_actions, logins, nextUserId>>

\* ResetDeviceClear whose UPDATE has "AND device_id IS NOT NULL": an unbound user
\* matches no row.
ResetDeviceClearBoundOnly(p, userId) ==
    /\ Handling(p, "reset")
    /\ IF users[userId].exists /\ users[userId].device_id # NULL
       THEN /\ users' = [users EXCEPT ![userId].device_id = NULL]
            /\ proc' = [proc EXCEPT ![p] =
                  [proc[p] EXCEPT !.pc = "reset_sessions", !.op = "reset",
                                  !.target = userId]]
       ELSE /\ users' = users
            /\ proc' = [proc EXCEPT ![p] = RespondAs(p, "reset", 404, "User not found")]
    /\ UNCHANGED <<sessions, nextSessionId, tokens, now, admin_actions, logins, nextUserId>>

\* POST /admin/users/:id/reset-device, first query: UPDATE users SET device_id = NULL
ResetDeviceClear(p, userId) ==
    /\ Handling(p, "reset")
    /\ IF users[userId].exists
       THEN /\ users' = [users EXCEPT ![userId].device_id = NULL]
            /\ proc' = [proc EXCEPT ![p] =
                  [proc[p] EXCEPT !.pc = "reset_sessions", !.op = "reset",
                                  !.target = userId]]
       ELSE /\ users' = users
            /\ proc' = [proc EXCEPT ![p] = RespondAs(p, "reset", 404, "User not found")]
    /\ UNCHANGED <<sessions, nextSessionId, tokens, now, admin_actions, logins, nextUserId>>

\* reset-device without its second query: the sessions stay as they are.
ResetDeviceSessionsKeep(p) ==
    /\ proc[p].pc = "reset_sessions"
    /\ proc' = [proc EXCEPT ![p] = RespondAs(p, "reset", 200, "")]
    /\ UNCHANGED <<users, sessions, nextSessionId, tokens, now, logins, nextUserId>>

\* second query: UPDATE sessions SET is_active = FALSE WHERE user_id = $1 AND is_active
ResetDeviceSessions(p) ==
    /\ proc[p].pc = "reset_sessions"
    /\ sessions' = DeactivateWhere({s \in sessions : s.user_id = proc[p].target})
    /\ proc' = [proc EXCEPT ![p] = RespondAs(p, "reset", 200, "")]
    /\ UNCHANGED <<users, nextSessionId, tokens, now, logins, nextUserId>>

\* DELETE /admin/users/:id (sessions.user_id cascades)
DeleteUser(p, userId) ==
    /\ Handling(p, "deleteUser")
    /\ IF users[userId].exists
       THEN /\ users' = [users EXCEPT ![userId] = DeletedUser(userId)]
            /\ sessions' = {s \in sessions : s.user_id # userId}
            /\ proc' = [proc EXCEPT ![p] = RespondAs(p, "deleteUser", 200, "")]
       ELSE /\ UNCHANGED <<users, sessions>>
            /\ proc' = [proc EXCEPT ![p] = RespondAs(p, "deleteUser", 404, "User not found")]
    /\ UNCHANGED <<nextSessionId, tokens, now, logins, nextUserId>>

\* POST /admin/users/:id/extend
\* The clock counts months: make_interval(months => n) adds n.
MaxMonths == 1
NoMonths == -1          \* a body without months
DefaultMonths == 3
MonthsLimit == 60

\* The extension counted from the stored expiry even when it has lapsed.
ExtendByMonthsFromStored(expires_at, months) ==
    (IF expires_at = NullTime THEN now ELSE expires_at) + months

\* GREATEST(COALESCE(expires_at, NOW()), NOW()) + make_interval(months => $2::int)
ExtendByMonths(expires_at, months) ==
    Greatest(IF expires_at = NullTime THEN now ELSE expires_at, now) + months

MonthsBody(m) == [permanent |-> FALSE, expiresAt |-> NullTime, months |-> m]

PermanentBody == [permanent |-> TRUE, expiresAt |-> NullTime, months |-> NoMonths]

ExtendModes ==
    {PermanentBody}
    \cup {[permanent |-> FALSE, expiresAt |-> e, months |-> NoMonths] : e \in ExpiryDates}
    \cup {MonthsBody(m) : m \in 1 .. MaxMonths}

\* The bodies of the months mode: no months, and months from 0 to one past the limit.
ExtendBodies == {MonthsBody(m) : m \in {NoMonths} \cup (0 .. MonthsLimit + 1)}

\* req.body?.months ?? 3
RequestedMonths(body) == IF body.months = NoMonths THEN DefaultMonths ELSE body.months

MonthsMode(body) == ~body.permanent /\ body.expiresAt = NullTime

ExtendedExpiry(expires_at, body) ==
    IF body.permanent THEN NullTime
    ELSE IF body.expiresAt # NullTime THEN body.expiresAt
    ELSE ExtendByMonths(expires_at, RequestedMonths(body))

\* Extend that also switches the user's sessions back on.
ExtendReactivating(p, userId, body) ==
    /\ Handling(p, "extend")
    /\ IF users[userId].exists
       THEN /\ ExtendedExpiry(users[userId].expires_at, body) \in Expiries
            /\ users' = [users EXCEPT ![userId].expires_at =
                            ExtendedExpiry(users[userId].expires_at, body)]
            /\ sessions' = {IF s.user_id = userId THEN [s EXCEPT !.is_active = TRUE] ELSE s :
                               s \in sessions}
            /\ proc' = [proc EXCEPT ![p] = RespondAs(p, "extend", 200, "")]
       ELSE /\ UNCHANGED <<users, sessions>>
            /\ proc' = [proc EXCEPT ![p] = RespondAs(p, "extend", 404, "User not found")]
    /\ UNCHANGED <<nextSessionId, tokens, now, logins, nextUserId>>

\* The handler, for stored expiries within dates.
ExtendWithin(p, userId, body, dates) ==
    /\ Handling(p, "extend")
    /\ IF MonthsMode(body) /\ RequestedMonths(body) \notin 1 .. MonthsLimit
       THEN /\ users' = users
            /\ proc' = [proc EXCEPT ![p] =
                  RespondAs(p, "extend", 400, "months must be an integer in range 1..60")]
       ELSE IF users[userId].exists
       THEN /\ ExtendedExpiry(users[userId].expires_at, body) \in dates
            /\ users' = [users EXCEPT ![userId].expires_at =
                            ExtendedExpiry(users[userId].expires_at, body)]
            /\ proc' = [proc EXCEPT ![p] = RespondAs(p, "extend", 200, "")]
       ELSE /\ users' = users
            /\ proc' = [proc EXCEPT ![p] = RespondAs(p, "extend", 404, "User not found")]
    /\ UNCHANGED <<sessions, nextSessionId, tokens, now, logins, nextUserId>>

Extend(p, userId, body) == ExtendWithin(p, userId, body, Expiries)

\* DeleteSession without the comparison to auth.sessionId.
DeleteSessionAny(p, sessionId) ==
    /\ Handling(p, "deleteSession")
    /\ IF \E s \in sessions : s.id = sessionId
       THEN /\ sessions' = {s \in sessions : s.id # sessionId}
            /\ proc' = [proc EXCEPT ![p] = RespondAs(p, "deleteSession", 200, "")]
       ELSE /\ sessions' = sessions
            /\ proc' = [proc EXCEPT ![p] = RespondAs(p, "deleteSession", 404, "Session not found")]
    /\ UNCHANGED <<users, nextSessionId, tokens, now, logins, nextUserId>>

\* DELETE /admin/sessions/:id
DeleteSession(p, sessionId) ==
    /\ Handling(p, "deleteSession")
    /\ IF proc[p].auth.sessionId = sessionId
       THEN /\ sessions' = sessions
            /\ proc' = [proc EXCEPT ![p] = RespondAs(p, "deleteSession", 400, "Current session cannot be deleted")]
       ELSE IF \E s \in sessions : s.id = sessionId
       THEN /\ sessions' = {s \in sessions : s.id # sessionId}
            /\ proc' = [proc EXCEPT ![p] = RespondAs(p, "deleteSession", 200, "")]
       ELSE /\ sessions' = sessions
            /\ proc' = [proc EXCEPT ![p] = RespondAs(p, "deleteSession", 404, "Session not found")]
    /\ UNCHANGED <<users, nextSessionId, tokens, now, logins, nextUserId>>

\* ---- server/cleanupExpired.ts --------------------------------------------------
ExpiredForCleanup(u) == u.exists /\ u.expires_at # NullTime /\ u.expires_at < now

cleanupExpiredUsers(mode) ==
    IF mode = "delete"
    THEN /\ users' = [id \in UserIds |->
                        IF ExpiredForCleanup(users[id]) THEN DeletedUser(id) ELSE users[id]]
         /\ sessions' = {s \in sessions : ~ExpiredForCleanup(users[s.user_id])}
    ELSE /\ users' = users
         /\ sessions' = DeactivateWhere(
                            {s \in sessions : ExpiredForCleanup(users[s.user_id])})

\* POST /admin/cleanup-expired
CleanupExpired(p, mode) ==
    /\ Handling(p, "cleanup")
    /\ cleanupExpiredUsers(mode)
    /\ proc' = [proc EXCEPT ![p] = RespondAs(p, "cleanup", 200, "")]
    /\ UNCHANGED <<nextSessionId, tokens, now, logins, nextUserId>>

\* cleanupExpiredUsers query by query, with the CleanupResult the route sends back.
\* deleted.rowCount | affectedSessions.rowCount
SweptUsers == {id \in UserIds : ExpiredForCleanup(users[id])}
SweptSessions == {s \in sessions : ExpiredForCleanup(users[s.user_id]) /\ s.is_active}

CleanupResult(expiredUsers, affectedSessions) ==
    [NoReply EXCEPT !.expiredUsers = expiredUsers, !.affectedSessions = affectedSessions]

\* delete: the DELETE, then the response; deactivate: the UPDATE of the sessions.
CleanupSweep(p, mode) ==
    /\ Handling(p, "cleanup")
    /\ cleanupExpiredUsers(mode)
    /\ IF mode = "delete"
       THEN /\ proc' = [proc EXCEPT ![p] = RespondAs(p, "cleanup", 200, "")]
            /\ reply' = [reply EXCEPT ![p] =
                  CleanupResult(Cardinality(SweptUsers), Cardinality(SweptUsers))]
       ELSE /\ proc' = [proc EXCEPT ![p] =
                  [proc[p] EXCEPT !.pc = "cleanup_count", !.op = "cleanup"]]
            /\ reply' = [reply EXCEPT ![p] = CleanupResult(0, Cardinality(SweptSessions))]
    /\ UNCHANGED <<nextSessionId, tokens, now, logins, nextUserId, admin_actions,
                   loginAttempts, reqIp, attempts>>
    /\ Upstream

\* deactivate: SELECT COUNT(*) FROM users WHERE ... expires_at < NOW(), the response.
CleanupCount(p) ==
    /\ proc[p].pc = "cleanup_count"
    /\ proc' = [proc EXCEPT ![p] = RespondAs(p, "cleanup", 200, "")]
    /\ reply' = [reply EXCEPT ![p].expiredUsers = Cardinality(SweptUsers)]
    /\ UNCHANGED <<users, sessions, nextSessionId, tokens, now, logins, nextUserId,
                   admin_actions, loginAttempts, reqIp, attempts>>
    /\ Upstream

\* ---- queries that throw (the database is down, the connection drops) -----------------
Thrown == [NoReply EXCEPT !.thrown = TRUE]

\* The request p starts or ends here with whatever its response carries.
Carries(p, r) ==
    /\ reply' = [reply EXCEPT ![p] = r]
    /\ UNCHANGED <<loginAttempts, reqIp, attempts>>
    /\ Upstream

\* POST /auth/login: the SELECT of the user throws; the handler's catch block answers.
LoginSelectThrows(p, d) ==
    /\ Accepts(p)
    /\ d # ""
    /\ proc' = [proc EXCEPT ![p] =
          [IdleProc EXCEPT !.op = "login", !.pc = "done", !.status = 500,
                           !.message = "Login failed"]]
    /\ Carries(p, Thrown)
    /\ UNCHANGED <<users, sessions, nextSessionId, tokens, now, admin_actions, logins,
                   nextUserId>>

\* POST /auth/login: the bind UPDATE, the re-read or the session INSERT throws.
LoginQueryThrows(p) ==
    /\ proc[p].pc \in {"l_bind", "l_refresh", "l_insert"}
    /\ proc' = [proc EXCEPT ![p] = Respond(p, 500, "Login failed")]
    /\ Carries(p, Thrown)
    /\ UNCHANGED <<users, sessions, nextSessionId, tokens, now, admin_actions, logins,
                   nextUserId>>

\* requireAuth: the session lookup throws, or every check passes and the UPDATE of
\* last_seen throws; either way the catch block of requireAuth answers.
AuthThrows(p, t, atLookup) ==
    /\ Accepts(p)
    /\ t # NoToken
    /\ atLookup \/ requireAuth(t).status = 200
    /\ proc' = [proc EXCEPT ![p] =
          [IdleProc EXCEPT !.op = "auth", !.pc = "done", !.status = 401,
                           !.message = "Unauthorized"]]
    /\ Carries(p, Thrown)
    /\ UNCHANGED <<users, sessions, nextSessionId, tokens, now, admin_actions, logins,
                   nextUserId>>

\* POST /auth/logout: the UPDATE of the session throws.
LogoutThrows(p) ==
    /\ Handling(p, "logout")
    /\ proc' = [proc EXCEPT ![p] = RespondAs(p, "logout", 500, "Logout failed")]
    /\ Carries(p, Thrown)
    /\ UNCHANGED <<users, sessions, nextSessionId, tokens, now, admin_actions, logins,
                   nextUserId>>

\* ---- server/index.ts: logAdminAction and the admin_actions table ---------------
\* The specification does not follow admin_actions.
NoAudit == UNCHANGED admin_actions

AdminActionRow(adminUserId, action, targetUserId, notes) ==
    [admin_user_id |-> adminUserId, action |-> action,
     target_user_id |-> targetUserId, notes |-> notes]

\* notes, as the key, the number and the word the template string puts together
Notes(key, num, text) == [key |-> key, num |-> num, text |-> text]
NoNotes == Notes("", 0, "")

\* admin_user_id, target_user_id REFERENCES users(id) ON DELETE SET NULL
OnDeleteSetNull(row, table) ==
    [row EXCEPT
       !.admin_user_id = IF @ # NullId /\ ~table[@].exists THEN NullId ELSE @,
       !.target_user_id = IF @ # NullId /\ ~table[@].exists THEN NullId ELSE @]

ReferencesHold(row, table) ==
    /\ row.admin_user_id = NullId \/ table[row.admin_user_id].exists
    /\ row.target_user_id = NullId \/ table[row.target_user_id].exists

\* What the step of a handler does to admin_actions: the rows that referenced a
\* user deleted in the step are set null; if the handler reached logAdminAction
\* (called), the INSERT adds the row unless a foreign key rejects it, and the
\* catch block of logAdminAction swallows the rejection.
logAdminAction(called, adminUserId, action, targetUserId, notes) ==
    LET kept == [i \in DOMAIN admin_actions |-> OnDeleteSetNull(admin_actions[i], users')]
        row == AdminActionRow(adminUserId, action, targetUserId, notes)
    IN  IF called /\ ReferencesHold(row, users')
        THEN /\ Len(admin_actions) < MaxLog
             /\ admin_actions' = Append(kept, row)
        ELSE admin_actions' = kept

\* ---- POST /admin/users -------------------------------------------------------------
LoginTaken(login) == \E id \in UserIds : users[id].exists /\ logins[id] = login

\* CreateUser that stores the login as typed (trimmed only).
CreateUserAsTyped(p, rawLogin, passwordLength, roleInput, expiresInput) ==
    LET login == normalizeLoginTrimOnly(rawLogin)
        role == IF roleInput = "admin" THEN "admin" ELSE "user"
    IN
    /\ Handling(p, "createUser")
    /\ login # <<>> /\ passwordLength >= 6 /\ expiresInput # InvalidTime
    /\ nextUserId <= MaxUserSerial
    /\ nextUserId' = nextUserId + 1
    /\ IF LoginTaken(login)
       THEN /\ proc' = [proc EXCEPT ![p] =
                  RespondAs(p, "createUser", 409, "Login already exists")]
            /\ UNCHANGED <<users, logins>>
       ELSE /\ nextUserId \in UserIds
            /\ users' = [users EXCEPT ![nextUserId] =
                  UserRow(nextUserId, role, NULL, parseExpiryInput(expiresInput))]
            /\ logins' = [logins EXCEPT ![nextUserId] = login]
            /\ proc' = [proc EXCEPT ![p] = RespondAs(p, "createUser", 201, "")]
    /\ UNCHANGED <<sessions, nextSessionId, tokens, now>>

CreateUser(p, rawLogin, passwordLength, roleInput, expiresInput) ==
    LET login == normalizeLogin(rawLogin)
        role == IF roleInput = "admin" THEN "admin" ELSE "user"
    IN
    /\ Handling(p, "createUser")
    /\ IF login = <<>> \/ passwordLength = 0
       THEN /\ proc' = [proc EXCEPT ![p] =
                  RespondAs(p, "createUser", 400, "Fields login and password are required")]
            /\ UNCHANGED <<users, logins, nextUserId>>
       ELSE IF passwordLength < 6
       THEN /\ proc' = [proc EXCEPT ![p] =
                  RespondAs(p, "createUser", 400, "Password must be at least 6 characters")]
            /\ UNCHANGED <<users, logins, nextUserId>>
       ELSE IF expiresInput = InvalidTime
       THEN /\ proc' = [proc EXCEPT ![p] =
                  RespondAs(p, "createUser", 400, "Invalid expires_at")]
            /\ UNCHANGED <<users, logins, nextUserId>>
       ELSE \* INSERT INTO users: the serial is drawn, then login UNIQUE is checked
            /\ nextUserId <= MaxUserSerial
            /\ nextUserId' = nextUserId + 1
            /\ IF LoginTaken(login)
               THEN /\ proc' = [proc EXCEPT ![p] =
                          RespondAs(p, "createUser", 409, "Login already exists")]
                    /\ UNCHANGED <<users, logins>>
               ELSE /\ nextUserId \in UserIds
                    /\ users' = [users EXCEPT ![nextUserId] =
                          UserRow(nextUserId, role, NULL, parseExpiryInput(expiresInput))]
                    /\ logins' = [logins EXCEPT ![nextUserId] = login]
                    /\ proc' = [proc EXCEPT ![p] = RespondAs(p, "createUser", 201, "")]
    /\ UNCHANGED <<sessions, nextSessionId, tokens, now>>

\* GET /admin/users
ListUsers(p) ==
    /\ Handling(p, "listUsers")
    /\ proc' = [proc EXCEPT ![p] = RespondAs(p, "listUsers", 200, "")]
    /\ UNCHANGED <<users, sessions, nextSessionId, tokens, now, admin_actions,
                   logins, nextUserId>>

\* GET /admin/sessions
ListSessions(p) ==
    /\ Handling(p, "listSessions")
    /\ proc' = [proc EXCEPT ![p] = RespondAs(p, "listSessions", 200, "")]
    /\ UNCHANGED <<users, sessions, nextSessionId, tokens, now, admin_actions,
                   logins, nextUserId>>

\* ---- the admin handlers, whole: the queries, then logAdminAction -------------------
AdminCreateUser(p, rawLogin, passwordLength, roleInput, expiresInput) ==
    /\ CreateUser(p, rawLogin, passwordLength, roleInput, expiresInput)
    /\ logAdminAction(proc'[p].status = 201, proc[p].auth.userId, "create_user",
                      nextUserId,
                      Notes("role", 0, IF roleInput = "admin" THEN "admin" ELSE "user"))

AdminResetDeviceSessions(p) ==
    /\ ResetDeviceSessions(p)
    /\ logAdminAction(TRUE, proc[p].auth.userId, "reset_device", proc[p].target, NoNotes)

AdminDeleteUser(p, userId) ==
    /\ DeleteUser(p, userId)
    /\ logAdminAction(users[userId].exists, proc[p].auth.userId, "delete_user",
                      userId, NoNotes)

AdminExtend(p, userId, body) ==
    /\ Extend(p, userId, body)
    /\ logAdminAction(users[userId].exists, proc[p].auth.userId, "extend_user", userId,
                      IF body.permanent THEN Notes("permanent", 0, "")
                      ELSE Notes("months", RequestedMonths(body), ""))

SessionOwner(sessionId) ==
    IF \E s \in sessions : s.id = sessionId
    THEN (CHOOSE s \in sessions : s.id = sessionId).user_id ELSE NullId

\* AdminDeleteSession that writes its log row before it looks at the outcome.
AdminDeleteSessionAlways(p, sessionId) ==
    /\ DeleteSession(p, sessionId)
    /\ logAdminAction(TRUE, proc[p].auth.userId, "delete_session",
                      SessionOwner(sessionId), Notes("session_id", sessionId, ""))

AdminDeleteSession(p, sessionId) ==
    /\ DeleteSession(p, sessionId)
    /\ logAdminAction(proc'[p].status = 200, proc[p].auth.userId, "delete_session",
                      SessionOwner(sessionId), Notes("session_id", sessionId, ""))

AdminCleanupExpired(p, mode) ==
    /\ CleanupExpired(p, mode)
    /\ logAdminAction(TRUE, proc[p].auth.userId, "cleanup_expired", NullId,
                      Notes("expiredUsers",
                            Cardinality({id \in UserIds : ExpiredForCleanup(users[id])}),
                            mode))

\* ---- the log write, seen from the response ------------------------------------------
Warned == [NoReply EXCEPT !.warned = TRUE]

SuccessStatus == {200, 201}

\* The response of a whole admin handler: logAdminAction warned if it was reached
\* and its INSERT added no row.
LogOutcome(p) ==
    Carries(p, IF /\ proc'[p].pc = "done" /\ proc'[p].status \in SuccessStatus
                  /\ Len(admin_actions') = Len(admin_actions)
               THEN Warned ELSE NoReply)

\* The INSERT of logAdminAction throws whatever the row (the database went away
\* after the handler's own queries): the catch block warns and the handler goes on.
LogThrows(p) ==
    /\ proc'[p].pc = "done" /\ proc'[p].status \in SuccessStatus
    /\ admin_actions' =
          [i \in DOMAIN admin_actions |-> OnDeleteSetNull(admin_actions[i], users')]
    /\ Carries(p, Warned)

AdminWrites == {"createUser", "reset", "deleteUser", "extend", "deleteSession", "cleanup"}

\* A query of an admin handler throws: the handler's catch block answers 500.
AdminQueryThrows(p, op) ==
    /\ op \in AdminWrites
    /\ Handling(p, op) \/ (op = "reset" /\ proc[p].pc = "reset_sessions")
    /\ proc' = [proc EXCEPT ![p] = RespondAs(p, op, 500, "Failed")]
    /\ Carries(p, Thrown)
    /\ UNCHANGED <<users, sessions, nextSessionId, tokens, now, admin_actions, logins,
                   nextUserId>>

\* ---- server/onayClient.ts: OnayClient.qrStart ------------------------------------
Routes ==
    UNCHANGED <<users, sessions, nextSessionId, tokens, now, proc, admin_actions, logins,
                nextUserId, loginAttempts, reqIp, reply, attempts>>

Pending(i) == qrTasks[i].state \in {"first", "retry"}

\* qrStart that never looks into the Map: every call starts a task of its own.
qrStartNoDedupe(c, terminal) ==
    /\ qrCalls[c].pc \in {"idle", "settled"}
    /\ LET normalizedTerminal == trim(terminal)
           task == Len(qrTasks) + 1
       IN  IF normalizedTerminal = <<>>
           THEN /\ qrCalls' = [qrCalls EXCEPT ![c] =
                      Call("settled", NoTask, "rejected", "Terminal code is required")]
                /\ UNCHANGED <<qrStartInFlight, qrTasks>>
           ELSE /\ Len(qrTasks) < MaxTasks
                /\ qrTasks' = Append(qrTasks, Task(normalizedTerminal, "first"))
                /\ qrStartInFlight' =
                      [qrStartInFlight EXCEPT ![normalizedTerminal] = task]
                /\ qrCalls' = [qrCalls EXCEPT ![c] = Call("creator", task, "none", "")]

\* A call of qrStart up to its first await: the check of the terminal, the lookup
\* in the Map, and either the return of the task found there or the start of a
\* task (which runs up to its own first await), Map.set, await task.
qrStart(c, terminal) ==
    /\ qrCalls[c].pc \in {"idle", "settled"}
    /\ LET normalizedTerminal == trim(terminal)
           task == Len(qrTasks) + 1
       IN  IF normalizedTerminal = <<>>
           THEN /\ qrCalls' = [qrCalls EXCEPT ![c] =
                      Call("settled", NoTask, "rejected", "Terminal code is required")]
                /\ UNCHANGED <<qrStartInFlight, qrTasks>>
           ELSE LET inFlight == qrStartInFlight[normalizedTerminal]
                IN  IF inFlight # NoTask
                    THEN /\ qrCalls' = [qrCalls EXCEPT ![c] =
                               Call("joined", inFlight, "none", "")]
                         /\ UNCHANGED <<qrStartInFlight, qrTasks>>
                    ELSE /\ Len(qrTasks) < MaxTasks
                         /\ qrTasks' = Append(qrTasks, Task(normalizedTerminal, "first"))
                         /\ qrStartInFlight' =
                               [qrStartInFlight EXCEPT ![normalizedTerminal] = task]
                         /\ qrCalls' = [qrCalls EXCEPT ![c] =
                               Call("creator", task, "none", "")]

\* What the upstream (getFirstPan, sign-in, PUT .../qr/start) does to an attempt.
Answers == {"ok", "auth", "error"}

\* The task resumes: attempt(false) succeeds, fails with an auth error (sign in again,
\* attempt(true)) or fails otherwise (rethrown); attempt(true) succeeds or fails.
UpstreamAnswers(i, answer) ==
    /\ i \in DOMAIN qrTasks
    /\ Pending(i)
    /\ qrTasks' = [qrTasks EXCEPT ![i].state =
          IF answer = "ok" THEN "resolved"
          ELSE IF answer = "auth" /\ @ = "first" THEN "retry"
          ELSE "rejected"]
    /\ UNCHANGED <<qrStartInFlight, qrCalls>>

\* The creating call resumes and removes the entry only when the task resolved: the
\* delete after "await task", without the finally.
CreatorResumesOnSuccess(c) ==
    /\ qrCalls[c].pc = "creator"
    /\ ~Pending(qrCalls[c].task)
    /\ LET task == qrCalls[c].task
           normalizedTerminal == qrTasks[task].terminal
       IN  /\ qrStartInFlight' =
                 IF qrStartInFlight[normalizedTerminal] = task
                    /\ qrTasks[task].state = "resolved"
                 THEN [qrStartInFlight EXCEPT ![normalizedTerminal] = NoTask]
                 ELSE qrStartInFlight
           /\ qrCalls' = [qrCalls EXCEPT ![c] =
                 Call("settled", task, qrTasks[task].state, "")]
    /\ UNCHANGED qrTasks

\* The creating call resumes after "await task": the finally block, then the result.
CreatorResumes(c) ==
    /\ qrCalls[c].pc = "creator"
    /\ ~Pending(qrCalls[c].task)
    /\ LET task == qrCalls[c].task
           normalizedTerminal == qrTasks[task].terminal
       IN  /\ qrStartInFlight' =
                 IF qrStartInFlight[normalizedTerminal] = task
                 THEN [qrStartInFlight EXCEPT ![normalizedTerminal] = NoTask]
                 ELSE qrStartInFlight
           /\ qrCalls' = [qrCalls EXCEPT ![c] =
                 Call("settled", task, qrTasks[task].state, "")]
    /\ UNCHANGED qrTasks

\* The promise of a call that returned the task it found settles as the task did.
JoinerSettles(c) ==
    /\ qrCalls[c].pc = "joined"
    /\ ~Pending(qrCalls[c].task)
    /\ qrCalls' = [qrCalls EXCEPT ![c] =
          Call("settled", qrCalls[c].task, qrTasks[qrCalls[c].task].state, "")]
    /\ UNCHANGED <<qrStartInFlight, qrTasks>>

\* ---- specification --------------------------------------------------------------
SessionIds == 1 .. MaxDeviceSessions

\* One request at a time, every route, the clock advancing between queries.
\* (LoginRefresh runs only after a lost race, so it belongs to NextRace.)

Next ==
    \/ Tick /\ Aside
    \/ \E u \in UserIds, d \in RequestDevices : LoginSelect(1, u, d) /\ Aside
    \/ \E ok \in BOOLEAN : LoginEvaluate(1, ok) /\ Aside
    \/ LoginBind(1) /\ Aside
    \/ LoginInsert(1, MaxSessions) /\ Aside
    \/ \E t \in tokens \cup {NoToken} : AuthStart(1, t) /\ Aside
    \/ AdminDenied(1) /\ Aside
    \/ Me(1) /\ Aside
    \/ Logout(1) /\ Aside
    \/ \E u \in UserIds : ResetDeviceClear(1, u) /\ Aside
    \/ ResetDeviceSessions(1) /\ NoAudit /\ Aside
    \/ \E u \in UserIds : DeleteUser(1, u) /\ NoAudit /\ Aside
    \/ \E u \in UserIds, b \in ExtendModes : Extend(1, u, b) /\ NoAudit /\ Aside
    \/ \E s \in SessionIds : DeleteSession(1, s) /\ NoAudit /\ Aside
    \/ \E m \in {"deactivate", "delete"} : CleanupExpired(1, m) /\ NoAudit /\ Aside

Spec == Init /\ [][Next]_vars

\* The access decision alone: accounts in any state of binding and expiry (their
\* sessions long deleted) or deleted, a login request up to evaluateDeviceAccess,
\* the clock.
InitAccess ==
    /\ users \in {f \in [UserIds -> [id : UserIds, exists : BOOLEAN, role : Roles,
                                      device_id : Devices \cup {NULL},
                                      expires_at : Expiries]] :
                     \A id \in UserIds :
                        \/ f[id] = DeletedUser(id)
                        \/ f[id].exists /\ f[id].id = id /\ f[id].role = RoleOf(id)}
    /\ sessions = {}
    /\ nextSessionId = 1
    /\ tokens = {}
    /\ now = 0
    /\ proc = [p \in Procs |-> IdleProc]
    /\ admin_actions = <<>>
    /\ logins = [id \in UserIds |-> SeedLogin(id)]
    /\ nextUserId = 3
    /\ AsideInit

NextAccess ==
    \/ Tick /\ Aside
    \/ \E u \in UserIds, d \in RequestDevices : LoginSelect(1, u, d) /\ Aside
    \/ \E ok \in BOOLEAN : LoginEvaluate(1, ok) /\ Aside

SpecAccess == InitAccess /\ [][NextAccess]_vars

\* Two requests in flight: logins racing each other and an admin's reset-device.
NextRace ==
    \/ \E p \in Procs, u \in UserIds, d \in RequestDevices : LoginSelect(p, u, d) /\ Aside
    \/ \E p \in Procs, ok \in BOOLEAN : LoginEvaluate(p, ok) /\ Aside
    \/ \E p \in Procs : LoginBind(p) /\ Aside
    \/ \E p \in Procs : LoginRefresh(p) /\ Aside
    \/ \E p \in Procs : LoginInsert(p, MaxSessions) /\ Aside
    \/ \E p \in Procs, t \in tokens : AuthStart(p, t) /\ Aside
    \/ \E p \in Procs : AdminDenied(p) /\ Aside
    \/ \E p \in Procs : Me(p) /\ Aside
    \/ \E p \in Procs, u \in UserIds : ResetDeviceClear(p, u) /\ Aside
    \/ \E p \in Procs : ResetDeviceSessions(p) /\ NoAudit /\ Aside

SpecRace == Init /\ [][NextRace]_vars

\* One request at a time, the device-binding routes only (frozen clock), so that a
\* bind, a rejected second device, an admin reset and a re-bind fit the session cap.
NextDevice ==
    \/ \E u \in UserIds, d \in RequestDevices : LoginSelect(1, u, d) /\ Aside
    \/ \E ok \in BOOLEAN : LoginEvaluate(1, ok) /\ Aside
    \/ LoginBind(1) /\ Aside
    \/ LoginInsert(1, MaxDeviceSessions) /\ Aside
    \/ \E t \in tokens : AuthStart(1, t) /\ Aside
    \/ AdminDenied(1) /\ Aside
    \/ Me(1) /\ Aside
    \/ \E u \in UserIds : ResetDeviceClear(1, u) /\ Aside
    \/ ResetDeviceSessions(1) /\ NoAudit /\ Aside

SpecDevice == Init /\ [][NextDevice]_vars

\* Two requests in flight on one user-role account (id 2): its logins from either
\* device, its authenticated requests, and reset-device by an admin who is already
\* logged in (session 1), so that the requests of two devices fit the session cap.
InitReset ==
    /\ users = [id \in UserIds |->
                  IF id = 1 THEN UserRow(1, "admin", "A", NullTime)
                  ELSE UserRow(id, "user", NULL, NullTime)]
    /\ sessions = {[id |-> 1, user_id |-> 1, device_id |-> "A", is_active |-> TRUE]}
    /\ nextSessionId = 2
    /\ tokens = {AuthPayload(1, "admin", "A", 1)}
    /\ now = 0
    /\ proc = [p \in Procs |-> IdleProc]
    /\ admin_actions = <<>>
    /\ logins = [id \in UserIds |-> SeedLogin(id)]
    /\ nextUserId = 3
    /\ AsideInit

NextReset ==
    \/ \E p \in Procs, d \in Devices : LoginSelect(p, 2, d) /\ Aside
    \/ \E p \in Procs : LoginEvaluate(p, TRUE) /\ Aside
    \/ \E p \in Procs : LoginBind(p) /\ Aside
    \/ \E p \in Procs : LoginRefresh(p) /\ Aside
    \/ \E p \in Procs : LoginInsert(p, MaxDeviceSessions) /\ Aside
    \/ \E p \in Procs, t \in tokens : AuthStart(p, t) /\ Aside
    \/ \E p \in Procs : AdminDenied(p) /\ Aside
    \/ \E p \in Procs : Me(p) /\ Aside
    \/ \E p \in Procs : ResetDeviceClear(p, 2) /\ Aside
    \/ \E p \in Procs : ResetDeviceSessions(p) /\ NoAudit /\ Aside

SpecReset == InitReset /\ [][NextReset]_vars

\* The admin API with its log: only the seeded admin exists at first
\* (scripts/createAdminUser.ts); one request at a time, one device, frozen clock.
InitAdmin ==
    /\ users = [id \in UserIds |->
                  IF id = 1 THEN UserRow(1, "admin", NULL, NullTime) ELSE DeletedUser(id)]
    /\ sessions = {}
    /\ nextSessionId = 1
    /\ tokens = {}
    /\ now = 0
    /\ proc = [p \in Procs |-> IdleProc]
    /\ admin_actions = <<>>
    /\ logins = [id \in UserIds |-> IF id = 1 THEN SeedLogin(1) ELSE <<>>]
    /\ nextUserId = 2
    /\ AsideInit

NextAdmin ==
    \/ \E u \in UserIds : LoginSelect(1, u, "A") /\ Aside
    \/ \E ok \in BOOLEAN : LoginEvaluate(1, ok) /\ Aside
    \/ LoginBind(1) /\ Aside
    \/ LoginInsert(1, MaxSessions) /\ Aside
    \/ \E t \in tokens \cup {NoToken} : AuthStart(1, t) /\ Aside
    \/ AdminDenied(1) /\ Aside
    \/ Logout(1) /\ Aside
    \/ \E l \in RawLogins, n \in PasswordLengths, r \in RoleInputs, e \in ExpiryInputs :
          AdminCreateUser(1, l, n, r, e) /\ Aside
    \/ ListUsers(1) /\ Aside
    \/ \E u \in UserIds : ResetDeviceClear(1, u) /\ Aside
    \/ AdminResetDeviceSessions(1) /\ Aside
    \/ \E u \in UserIds : AdminDeleteUser(1, u) /\ Aside
    \/ \E u \in UserIds : AdminExtend(1, u, PermanentBody) /\ Aside
    \/ ListSessions(1) /\ Aside
    \/ \E s \in SessionIds : AdminDeleteSession(1, s) /\ Aside
    \/ AdminCleanupExpired(1, "deactivate") /\ Aside

SpecAdmin == InitAdmin /\ [][NextAdmin]_vars

\* The months arithmetic of extend: an admin with a session, a user with any stored
\* expiry, the clock anywhere; requests for that user with every months value.
AllDates == {NullTime} \cup (0 .. MaxDate + MonthsLimit)

InitExtend ==
    /\ \E e \in {NullTime} \cup (0 .. MaxDate) :
          users = [id \in UserIds |->
                     IF id = 1 THEN UserRow(1, "admin", "A", NullTime)
                     ELSE UserRow(id, "user", NULL, e)]
    /\ sessions = {[id |-> 1, user_id |-> 1, device_id |-> "A", is_active |-> TRUE]}
    /\ nextSessionId = 2
    /\ tokens = {AuthPayload(1, "admin", "A", 1)}
    /\ now \in 0 .. MaxDate
    /\ proc = [p \in Procs |-> IdleProc]
    /\ admin_actions = <<>>
    /\ logins = [id \in UserIds |-> SeedLogin(id)]
    /\ nextUserId = 3
    /\ AsideInit

NextExtend ==
    \/ \E t \in tokens : AuthStart(1, t) /\ Aside
    \/ \E u \in UserIds \ {1}, b \in ExtendBodies :
          ExtendWithin(1, u, b, AllDates) /\ NoAudit /\ Aside

SpecExtend == InitExtend /\ [][NextExtend]_vars

\* The admin API over a database that may fail at any query, the log's INSERT
\* included: the seeded admin, one request at a time, frozen clock. (The INSERT of
\* DELETE /admin/users fails by itself, on its foreign key.)
NextAudit ==
    \/ LoginSelect(1, 1, "A") /\ Carries(1, NoReply)
    \/ LoginEvaluate(1, TRUE) /\ Aside
    \/ LoginBind(1) /\ Aside
    \/ LoginInsert(1, MaxSessions) /\ Aside
    \/ \E t \in tokens : AuthStart(1, t) /\ Carries(1, NoReply)
    \/ \E l \in {<<"b">>, <<" ">>} : AdminCreateUser(1, l, 6, "user", NullTime) /\ LogOutcome(1)
    \/ CreateUser(1, <<"b">>, 6, "user", NullTime) /\ LogThrows(1)
    \/ \E u \in UserIds : ResetDeviceClear(1, u) /\ Aside
    \/ AdminResetDeviceSessions(1) /\ LogOutcome(1)
    \/ ResetDeviceSessions(1) /\ LogThrows(1)
    \/ \E u \in UserIds : AdminDeleteUser(1, u) /\ LogOutcome(1)
    \/ \E u \in UserIds : AdminExtend(1, u, PermanentBody) /\ LogOutcome(1)
    \/ \E u \in UserIds : Extend(1, u, PermanentBody) /\ LogThrows(1)
    \/ \E x \in SessionIds : AdminDeleteSession(1, x) /\ LogOutcome(1)
    \/ \E x \in SessionIds : DeleteSession(1, x) /\ LogThrows(1)
    \/ AdminCleanupExpired(1, "deactivate") /\ LogOutcome(1)
    \/ CleanupExpired(1, "deactivate") /\ LogThrows(1)
    \/ \E op \in AdminWrites : AdminQueryThrows(1, op)

SpecAudit == InitAdmin /\ [][NextAudit]_vars

\* The callers of OnayClient.qrStart and its upstream tasks, interleaved at every await.
NextOnay ==
    \/ \E c \in Callers, r \in RawTerminals : qrStart(c, r) /\ Routes
    \/ \E i \in 1 .. MaxTasks, a \in Answers : UpstreamAnswers(i, a) /\ Routes
    \/ \E c \in Callers : CreatorResumes(c) /\ Routes
    \/ \E c \in Callers : JoinerSettles(c) /\ Routes

SpecOnay == Init /\ [][NextOnay]_vars

\* The sweep and its report: the admin with a session; a user bound to A with any
\* expiry and up to two sessions, active or not; the clock anywhere.
UserSessions ==
    {S \in SUBSET [id : {2, 3}, user_id : {2}, device_id : {"A"}, is_active : BOOLEAN] :
        \A a \in S, b \in S : a.id = b.id => a = b}

InitCleanup ==
    /\ \E e \in Expiries :
          users = [id \in UserIds |->
                     IF id = 1 THEN UserRow(1, "admin", "A", NullTime)
                     ELSE UserRow(id, "user", "A", e)]
    /\ \E S \in UserSessions :
          /\ sessions = {[id |-> 1, user_id |-> 1, device_id |-> "A", is_active |-> TRUE]}
                            \cup S
          /\ tokens = {AuthPayload(1, "admin", "A", 1)}
                            \cup {AuthPayload(2, "user", "A", r.id) : r \in S}
    /\ nextSessionId = 4
    /\ now \in Times
    /\ proc = [p \in Procs |-> IdleProc]
    /\ admin_actions = <<>>
    /\ logins = [id \in UserIds |-> SeedLogin(id)]
    /\ nextUserId = 3
    /\ AsideInit

NextCleanup ==
    \/ Tick /\ Aside
    \/ \E t \in tokens : AuthStart(1, t) /\ Carries(1, NoReply)
    \/ AdminDenied(1) /\ Aside
    \/ \E m \in {"deactivate", "delete"} : CleanupSweep(1, m)
    \/ CleanupCount(1)

SpecCleanup == InitCleanup /\ [][NextCleanup]_vars

\* Login, authenticated requests and logout over a database whose queries may throw:
\* the admin and a user whose account expires at 1, one request at a time.
InitStorage ==
    /\ users = [id \in UserIds |->
                  UserRow(id, RoleOf(id), NULL, IF id = 1 THEN NullTime ELSE 1)]
    /\ sessions = {}
    /\ nextSessionId = 1
    /\ tokens = {}
    /\ now = 0
    /\ proc = [p \in Procs |-> IdleProc]
    /\ admin_actions = <<>>
    /\ logins = [id \in UserIds |-> SeedLogin(id)]
    /\ nextUserId = 3
    /\ AsideInit

NextStorage ==
    \/ Tick /\ Aside
    \/ \E u \in UserIds, d \in RequestDevices : LoginSelect(1, u, d) /\ Carries(1, NoReply)
    \/ \E d \in RequestDevices : LoginSelectThrows(1, d)
    \/ \E ok \in BOOLEAN : LoginEvaluate(1, ok) /\ Aside
    \/ LoginBind(1) /\ Aside
    \/ LoginInsert(1, MaxSessions) /\ Aside
    \/ LoginQueryThrows(1)
    \/ \E t \in tokens \cup {NoToken} : AuthStart(1, t) /\ Carries(1, NoReply)
    \/ \E t \in tokens, atLookup \in BOOLEAN : AuthThrows(1, t, atLookup)
    \/ Me(1) /\ Aside
    \/ Logout(1) /\ Aside
    \/ LogoutThrows(1)

SpecStorage == InitStorage /\ [][NextStorage]_vars

\* The login route behind its limiter: requests from two addresses, one at a time,
\* the limiter's clock.
NextRate ==
    \/ Elapse
    \/ \E k \in Sources : RateLimitedLogin(1, k, 2, "A")
    \/ \E ok \in BOOLEAN : LoginVerify(1, ok)
    \/ LoginBinding(1)
    \/ LoginFinish(1, MaxSessions)

SpecRate == Init /\ [][NextRate]_vars

TypeOK ==
    /\ \A id \in UserIds : users[id].expires_at \in Expiries
                           /\ users[id].device_id \in Devices \cup {NULL}
    /\ nextSessionId \in 1 .. MaxDeviceSessions + 1
    /\ now \in Times

\* ---- properties -------------------------------------------------------------
\* The step of request p in which evaluateDeviceAccess ran (the password was valid).
Evaluated(p) == proc[p].pc = "l_verify" /\ proc'[p].decision # NoDecision

\* Request p takes the step.
Steps(p) == proc'[p] # proc[p]

LoginAnswered(p, status, message) ==
    /\ proc[p].pc = "done" /\ proc[p].op = "login"
    /\ proc[p].status = status /\ proc[p].message = message

ExpiredDecision == Decision(FALSE, FALSE, 410, ACCOUNT_EXPIRED_MESSAGE)
DeviceInUseDecision == Decision(FALSE, FALSE, 403, DEVICE_IN_USE_MESSAGE)

\* C1: whenever evaluateDeviceAccess runs on a row whose expires_at is non-null and
\* <= now (equal included), for any role, stored device and requesting device, the
\* decision is {ok: false, shouldBindDevice: false, 410, ACCOUNT_EXPIRED} and the
\* login answers exactly that.
C1_ExpiryDominates ==
    [][\A p \in Procs :
          (/\ Evaluated(p)
           /\ proc[p].user.expires_at # NullTime
           /\ proc[p].user.expires_at <= now)
          => /\ proc'[p].decision = ExpiredDecision
             /\ proc'[p].pc = "done"
             /\ proc'[p].status = 410
             /\ proc'[p].message = ACCOUNT_EXPIRED_MESSAGE]_vars

\* A login answered 410 at the very instant of expiry, while both accounts are
\* bound to device A, so the rejected row was a bound one.
C1_Witness ==
    /\ LoginAnswered(1, 410, ACCOUNT_EXPIRED_MESSAGE)
    /\ proc[1].decision = ExpiredDecision
    /\ \A id \in UserIds : users[id].expires_at = now /\ users[id].device_id = "A"

\* C5: whenever evaluateDeviceAccess runs on a non-expired admin row, the decision is
\* {ok: true, shouldBindDevice: false, 200}, whatever the stored and requesting devices.
C5_AdminBypass ==
    [][\A p \in Procs :
          (/\ Evaluated(p)
           /\ proc[p].user.role = "admin"
           /\ ~(proc[p].user.expires_at # NullTime /\ proc[p].user.expires_at <= now))
          => proc'[p].decision = Decision(TRUE, FALSE, 200, "")]_vars

\* C6: an admin login with a valid password is never answered 403 DEVICE_IN_USE and
\* never writes the admin's device binding, and a token issued to an admin is never
\* rejected by requireAuth with 403 DEVICE_IN_USE.
C6_AdminNeverDeviceLocked ==
    [][/\ \A p \in Procs :
             (Steps(p) /\ proc[p].op = "login" /\ proc[p].user.exists
              /\ proc[p].user.role = "admin")
             => /\ ~(proc'[p].status = 403 /\ proc'[p].message = DEVICE_IN_USE_MESSAGE)
                /\ users'[proc[p].user.id].device_id = users[proc[p].user.id].device_id
       /\ \A t \in tokens :
             (users[t.userId].exists /\ users[t.userId].role = "admin")
             => ~(requireAuth(t).status = 403
                  /\ requireAuth(t).message = DEVICE_IN_USE_MESSAGE)]_vars

\* C2: for a user-role account, under any interleaving of logins and reset-device,
\* a non-null device binding changes only to null and only in a reset-device step;
\* a login step writes the binding only when it is currently null.
C2_SingleBinding ==
    [][\A id \in UserIds :
          (users[id].exists /\ users'[id].exists /\ users[id].role = "user"
           /\ users'[id].device_id # users[id].device_id)
          => IF users[id].device_id # NULL
             THEN /\ users'[id].device_id = NULL
                  /\ \E p \in Procs : Handling(p, "reset") /\ proc'[p].target = id
             ELSE \E p \in Procs : /\ proc[p].pc = "l_bind"
                                   /\ proc[p].user.id = id
                                   /\ users'[id].device_id = proc[p].deviceId]_vars

\* A login reached its conditional write while the account was bound to another
\* device: the write touched no row and the binding is still the other device.
C2_Witness ==
    \E p \in Procs :
        /\ proc[p].pc = "l_refresh"
        /\ proc[p].user.role = "user"
        /\ users[proc[p].user.id].device_id \notin {NULL, proc[p].deviceId}

\* C3: a login whose conditional write finds the binding already set affects zero
\* rows and goes on to re-read the user; if the re-read device differs from its own
\* it answers 403 DEVICE_IN_USE, with no session created and the binding untouched.
C3_LoserRejected ==
    [][\A p \in Procs :
          /\ (Steps(p) /\ proc[p].pc = "l_bind" /\ users[proc[p].user.id].device_id # NULL)
             => /\ users' = users
                /\ sessions' = sessions
                /\ proc'[p].pc = "l_refresh"
          /\ (/\ Steps(p) /\ proc[p].pc = "l_refresh"
              /\ users[proc[p].user.id].exists
              /\ users[proc[p].user.id].device_id # proc[p].deviceId)
             => /\ proc'[p].pc = "done"
                /\ proc'[p].status = 403
                /\ proc'[p].message = DEVICE_IN_USE_MESSAGE
                /\ users' = users
                /\ sessions' = sessions
                /\ tokens' = tokens]_vars

\* Two logins for the same never-bound user raced: one is bound and the other,
\* whose own decision was to bind, was answered 403 DEVICE_IN_USE.
C3_Witness ==
    \E p \in Procs, id \in UserIds :
        /\ LoginAnswered(p, 403, DEVICE_IN_USE_MESSAGE)
        /\ proc[p].decision.shouldBindDevice
        /\ users[id].role = "user"
        /\ users[id].device_id # NULL
        /\ \A s \in sessions : s.user_id = id => s.device_id = users[id].device_id

\* C4: one request at a time, for a non-expired user-role account: a login with a
\* valid password on an unbound account binds its device, creates an active
\* session and answers 200, leaving the binding equal to its own device; a login
\* from a device other than the bound one is answered 403 DEVICE_IN_USE and the
\* binding stays; so a second device gets in only after reset-device cleared the
\* binding.
C4_FirstDeviceWins ==
    [][\A p \in Procs :
          LET id == proc[p].user.id IN
          /\ (Evaluated(p) /\ proc[p].user.role = "user" /\ users[id].device_id = NULL)
             => proc'[p].pc = "l_bind"
          /\ (/\ Evaluated(p) /\ proc[p].user.role = "user"
              /\ users[id].device_id \notin {NULL, proc[p].deviceId})
             => /\ proc'[p].pc = "done"
                /\ proc'[p].status = 403
                /\ proc'[p].message = DEVICE_IN_USE_MESSAGE
                /\ users' = users
          /\ (Steps(p) /\ proc[p].pc = "l_bind" /\ proc[p].user.role = "user")
             => /\ users'[id].device_id = proc[p].deviceId
                /\ proc'[p].pc = "l_insert"
          /\ (Steps(p) /\ proc[p].pc = "l_insert" /\ proc[p].user.role = "user")
             => /\ proc'[p].pc = "done" /\ proc'[p].status = 200
                /\ users'[id].device_id = proc[p].deviceId
                /\ \E s \in sessions' \ sessions :
                      s.user_id = id /\ s.device_id = proc[p].deviceId /\ s.is_active]_vars

\* Bound to A, B rejected, reset by the admin, then B logged in: the account is
\* bound to B, its A session is inactive and its B session is active.
C4_Witness ==
    /\ LoginAnswered(1, 200, "")
    /\ users[2].device_id = "B"
    /\ \E s \in sessions : s.user_id = 2 /\ s.device_id = "A" /\ ~s.is_active
    /\ \E s \in sessions : s.user_id = 2 /\ s.device_id = "B" /\ s.is_active

Expired(u) == u.exists /\ u.expires_at # NullTime /\ u.expires_at <= now

\* The token's session row exists, belongs to the token's user and is active.
OtherwiseValid(t) ==
    \E s \in sessions : s.id = t.sessionId /\ s.user_id = t.userId /\ s.is_active

\* C7 as stated: while a user's expires_at is non-null and <= now, no login of that
\* user returns success and no request of that user passes requireAuth.
C7_NoSuccessWhileExpired ==
    [][\A p \in Procs :
          /\ (proc[p].pc = "l_insert" /\ proc'[p].status = 200)
             => ~Expired(users[proc[p].user.id])
          /\ (Accepts(p) /\ proc'[p].pc = "handler")
             => ~Expired(users[proc'[p].auth.userId])]_vars

\* C7, amended: a login with a valid password whose expiry check runs when the
\* expires_at it read is non-null and <= now answers 410 and creates no session
\* and no token; requireAuth answers 410 to every token whose session is active
\* and whose user's expires_at is <= now, so no such request reaches its handler.
C7_ExpiredRefusedAtCheck ==
    [][/\ \A p \in Procs :
             /\ (Evaluated(p) /\ Expired(proc[p].user))
                => /\ proc'[p].pc = "done"
                   /\ proc'[p].status = 410
                   /\ proc'[p].message = ACCOUNT_EXPIRED_MESSAGE
                   /\ sessions' = sessions
                   /\ tokens' = tokens
             /\ (Accepts(p) /\ proc'[p].pc = "handler")
                => ~Expired(users[proc'[p].auth.userId])
       /\ \A t \in tokens :
             (OtherwiseValid(t) /\ Expired(users[t.userId]))
             => /\ requireAuth(t).status = 410
                /\ requireAuth(t).message = ACCOUNT_EXPIRED_MESSAGE]_vars

\* An authenticated request on an active session of an admin, from the bound
\* device, was answered 410 because the account had expired.
C7_Witness ==
    /\ proc[1].pc = "done" /\ proc[1].op = "auth"
    /\ proc[1].status = 410 /\ proc[1].message = ACCOUNT_EXPIRED_MESSAGE
    /\ \E t \in tokens :
          /\ OtherwiseValid(t) /\ Expired(users[t.userId])
          /\ users[t.userId].role = "admin"
          /\ users[t.userId].device_id = t.deviceId

\* C8: in every step, a session row that is inactive stays inactive for as long as
\* it exists, and every row that appears is new (a fresh serial id) and active.
C8_NeverReactivated ==
    [][/\ \A s \in sessions : \A s2 \in sessions' :
             (s2.id = s.id /\ ~s.is_active) => ~s2.is_active
       /\ \A s2 \in sessions' :
             (\A s \in sessions : s.id # s2.id)
             => s2.is_active /\ s2.id = nextSessionId /\ nextSessionId' = nextSessionId + 1]_vars

\* A user whose expiry was set after one of their sessions had been deactivated:
\* the old row is still inactive, and a later login got a new, active row.
C8_Witness ==
    \E s \in sessions, s2 \in sessions :
        /\ s.user_id = s2.user_id /\ s.id < s2.id
        /\ ~s.is_active /\ s2.is_active
        /\ users[s.user_id].expires_at # NullTime

\* C9: when reset-device for user u completes with 200 (one request at a time), u's
\* binding is null, no session of u is active and no token issued to u passes
\* requireAuth.
C9_ResetRevokes ==
    [][\A p \in Procs :
          (proc[p].pc = "reset_sessions" /\ proc'[p].pc = "done" /\ proc'[p].status = 200)
          => LET u == proc[p].target IN
             /\ users'[u].device_id = NULL
             /\ \A s \in sessions' : s.user_id = u => ~s.is_active
             /\ \A t \in tokens' : t.userId = u => (requireAuth(t).status # 200)']_vars

\* After a reset, a request carrying the token of the user's old session was
\* answered 401 "Session inactive"; the user is unbound.
C9_Witness ==
    /\ proc[1].pc = "done" /\ proc[1].op = "auth"
    /\ proc[1].status = 401 /\ proc[1].message = "Session inactive"
    /\ \E s \in sessions :
          /\ ~s.is_active /\ users[s.user_id].role = "user"
          /\ users[s.user_id].device_id = NULL

\* C10: requireAuth gives the same outcome and the same resolved identity whatever
\* role the token claims; the resolved role is the role stored for the session's
\* user, so a token claiming admin for a stored user-role account never passes
\* requireAdmin.
RoleClaims(t) == {[t EXCEPT !.role = r] : r \in Roles}

C10_RoleFromDatabase ==
    \A t \in tokens : \A f \in RoleClaims(t) :
        /\ requireAuth(f).status = requireAuth(t).status
        /\ requireAuth(f).message = requireAuth(t).message
        /\ requireAuth(f).auth = requireAuth(t).auth
        /\ requireAuth(f).status = 200
           => /\ requireAuth(f).auth.role = users[t.userId].role
              /\ (users[t.userId].role = "user" => ~requireAdmin(requireAuth(f).auth))

\* A user-role account holds a token that passes requireAuth, also when its role
\* claim says admin, and its admin request was answered 403.
C10_Witness ==
    /\ proc[1].pc = "done" /\ proc[1].op = "admin"
    /\ proc[1].status = 403 /\ proc[1].message = "Admin access required"
    /\ \E t \in tokens :
          /\ users[t.userId].exists /\ users[t.userId].role = "user"
          /\ requireAuth([t EXCEPT !.role = "admin"]).status = 200

\* ---- credentials ---------------------------------------------------------------
\* The whole of what a rejected login shows: status, message, nothing else.
InvalidCredentials ==
    [IdleProc EXCEPT !.pc = "done", !.op = "login", !.status = 401,
                     !.message = "Invalid credentials"]

\* C12: a login for a login name with no row is answered 401 "Invalid credentials",
\* and a login with a wrong password for an existing row, whatever its role, binding
\* and expiry and whatever the device, is answered with exactly the same response;
\* neither request has any other possible answer.
C12_SameRejection ==
    \A p \in Procs :
        /\ Accepts(p)
           => \A u \in UserIds, d \in Devices :
                 ~users[u].exists
                 => /\ ENABLED (LoginSelect(p, u, d) /\ proc'[p] = InvalidCredentials)
                    /\ ~ENABLED (LoginSelect(p, u, d) /\ proc'[p] # InvalidCredentials)
        /\ proc[p].pc = "l_verify"
           => /\ ENABLED (LoginEvaluate(p, FALSE) /\ proc'[p] = InvalidCredentials)
              /\ ~ENABLED (LoginEvaluate(p, FALSE) /\ proc'[p] # InvalidCredentials)

\* Every account exists, is expired and is bound to device B, and a login was
\* answered 401 "Invalid credentials": a wrong password on an expired, bound row.
C12_Witness ==
    /\ proc[1] = InvalidCredentials
    /\ \A id \in UserIds : /\ Expired(users[id])
                            /\ users[id].device_id = "B"

\* ---- logout, round trip, idempotence -------------------------------------------
\* The session row of token t exists, belongs to t's user and is inactive.
InactiveSession(t) ==
    \E s \in sessions : s.id = t.sessionId /\ s.user_id = t.userId /\ ~s.is_active

\* C13 as stated: a request (a logout) carrying the token of an already inactive
\* session gets past requireAuth to its handler.
C13_LogoutInactiveSucceeds ==
    \A t \in tokens :
        (InactiveSession(t) /\ ~Expired(users[t.userId])) => requireAuth(t).status = 200

\* C13, amended: a logout that passed requireAuth answers 200, leaves its session
\* inactive and touches no other row; a request carrying the token of an inactive
\* session is answered 401 "Session inactive" by requireAuth, before any handler,
\* and a request refused by requireAuth leaves the sessions as they are.
C13_LogoutAfterAuth ==
    [][/\ \A p \in Procs :
             /\ (Handling(p, "logout") /\ proc'[p].op = "logout")
                => /\ proc'[p].pc = "done" /\ proc'[p].status = 200
                   /\ users' = users
                   /\ \A s \in sessions :
                         IF s.id = proc[p].auth.sessionId
                         THEN [s EXCEPT !.is_active = FALSE] \in sessions'
                         ELSE s \in sessions'
                   /\ \A s2 \in sessions' : \E s \in sessions : s2.id = s.id
             /\ (Steps(p) /\ proc'[p].op = "auth" /\ proc'[p].pc = "done")
                => sessions' = sessions
       /\ \A t \in tokens :
             InactiveSession(t)
             => /\ requireAuth(t).status = 401
                /\ requireAuth(t).message = "Session inactive"]_vars

\* No account ever had an expiry (so no cleanup touched a session) and the user is
\* still bound to the session's device (so no reset did): the session went inactive
\* by logout, and a later request with its token was answered 401 "Session inactive".
C13_Witness ==
    /\ proc[1].pc = "done" /\ proc[1].op = "auth"
    /\ proc[1].status = 401 /\ proc[1].message = "Session inactive"
    /\ \A id \in UserIds : users[id].exists /\ users[id].expires_at = NullTime
    /\ \E t \in tokens : /\ InactiveSession(t)
                         /\ users[t.userId].device_id = t.deviceId
    /\ \A s \in sessions : ~s.is_active

\* The identity requireAuth resolves for token t is the one signed into it.
ResolvesAsIssued(t) ==
    /\ requireAuth(t).status = 200
    /\ requireAuth(t).auth.userId = t.userId
    /\ requireAuth(t).auth.sessionId = t.sessionId
    /\ requireAuth(t).auth.role = t.role

\* C14 as stated: the token a successful login returns passes requireAuth right
\* after issuance (nothing at all, so no admin action, in between).
C14_RoundTripAtIssue ==
    [][\A p \in Procs :
          (proc[p].pc = "l_insert" /\ proc'[p].status = 200)
          => \A t \in tokens' \ tokens : ResolvesAsIssued(t)']_vars

\* C14, amended: a successful login issues one new token that carries the user's
\* id and stored role, the request's device and the id of a new active session of
\* that user; and every issued token whose session is still active and whose
\* account's expiry has not been reached passes requireAuth and resolves to the
\* userId, sessionId and role signed into it.
C14_RoundTrip ==
    [][/\ \A p \in Procs :
             (proc[p].pc = "l_insert" /\ proc'[p].status = 200)
             => \E t \in tokens' \ tokens :
                   /\ tokens' = tokens \cup {t}
                   /\ t.userId = proc[p].user.id
                   /\ t.role = users[t.userId].role
                   /\ t.deviceId = proc[p].deviceId
                   /\ \A s \in sessions : s.id # t.sessionId
                   /\ \E s \in sessions' :
                         s.id = t.sessionId /\ s.user_id = t.userId /\ s.is_active
                   /\ ~Expired(users[t.userId]) => ResolvesAsIssued(t)'
       /\ \A t \in tokens :
             (OtherwiseValid(t) /\ ~Expired(users[t.userId])) => ResolvesAsIssued(t)]_vars

\* One user-role account holds two tokens, from the login that bound the device and
\* from a later login on the same device, and a request with the later one has
\* passed requireAuth with the identity signed into it.
C14_Witness ==
    \E t1 \in tokens, t2 \in tokens :
        /\ t1.userId = t2.userId /\ t1.sessionId < t2.sessionId
        /\ t1.role = "user" /\ t1.deviceId = t2.deviceId
        /\ ResolvesAsIssued(t1) /\ ResolvesAsIssued(t2)
        /\ proc[1].pc = "handler"
        /\ proc[1].auth.sessionId = t2.sessionId /\ proc[1].auth.userId = t2.userId
        /\ proc[1].auth.role = "user"

NoActiveSession(table, u) == \A s \in table : s.user_id = u => ~s.is_active

C18_OwnSessionKept ==
    [][\A p \in Procs :
          /\ Handling(p, "deleteSession")
             => ~ENABLED (/\ DeleteSession(p, proc[p].auth.sessionId)
                          /\ ~(proc'[p].status = 400 /\ sessions' = sessions))
          /\ (Handling(p, "deleteSession") /\ proc'[p].op = "deleteSession")
             => /\ \E s \in sessions' : s.id = proc[p].auth.sessionId /\ s.is_active
                /\ proc'[p].status = 400 => sessions' = sessions]_vars

\* The admin's request to delete a session was answered 400 and the admin's active
\* session is there.
C18_Witness ==
    /\ proc[1].pc = "done" /\ proc[1].op = "deleteSession" /\ proc[1].status = 400
    /\ proc[1].message = "Current session cannot be deleted"
    /\ \E s \in sessions : users[s.user_id].role = "admin" /\ s.is_active

\* C19: after POST /admin/cleanup-expired, every user whose expires_at is non-null
\* and <= now (equal included) has no active session in deactivate mode and is gone
\* with all sessions in delete mode; users with a null or future expiry and their
\* sessions are as they were.
C19_CleanupAtExpiry ==
    [][\A p \in Procs :
          (Handling(p, "cleanup") /\ proc'[p].op = "cleanup")
          => /\ \A id \in UserIds :
                   IF Expired(users[id])
                   THEN \/ users'[id] = users[id] /\ NoActiveSession(sessions', id)
                        \/ ~users'[id].exists /\ \A s \in sessions' : s.user_id # id
                   ELSE users'[id] = users[id]
             /\ \A s \in sessions : ~Expired(users[s.user_id]) => s \in sessions']_vars

\* ---- extend ---------------------------------------------------------------------
\* C16: for every stored expiry, every clock value and every months in 1..60, the
\* months mode of extend answers 200 and stores max(expiry, now) + months, now + months
\* when the stored expiry is null or has lapsed, and has no other possible result.
C16_MonthsFromLaterDate ==
    \A p \in Procs, u \in UserIds, m \in 1 .. MonthsLimit :
        (Handling(p, "extend") /\ users[u].exists)
        => LET e == users[u].expires_at
               expected == (IF e = NullTime \/ e < now THEN now ELSE e) + m
           IN  expected \in AllDates
               => /\ ENABLED (/\ ExtendWithin(p, u, MonthsBody(m), AllDates)
                              /\ proc'[p].status = 200
                              /\ users'[u].expires_at = expected)
                  /\ ~ENABLED (/\ ExtendWithin(p, u, MonthsBody(m), AllDates)
                               /\ users'[u].expires_at # expected)

\* An extend was answered 200 and the user's expiry is one month after a clock that
\* is past its start: a one-month extension counted from now.
C16_Witness ==
    /\ proc[1].pc = "done" /\ proc[1].op = "extend" /\ proc[1].status = 200
    /\ now > 1
    /\ users[2].expires_at = now + 1

\* ---- the admin API -------------------------------------------------------------
\* Request p is past requireAuth with an identity resolved from an issued token
\* whose stored role is admin.
AdminAuthenticated(p) ==
    /\ proc[p].pc \in {"handler", "reset_sessions"}
    /\ proc[p].auth.role = "admin"
    /\ \E t \in tokens : /\ t.userId = proc[p].auth.userId
                         /\ t.sessionId = proc[p].auth.sessionId
                         /\ users[t.userId].role = "admin"

\* The step does something only an admin operation does: it writes admin_actions,
\* creates or deletes a user, sets an expiry, clears a binding, deletes a session
\* row, or deactivates a session other than by that session's own logout.
AdminEffect ==
    \/ admin_actions' # admin_actions
    \/ logins' # logins
    \/ nextUserId' # nextUserId
    \/ \E id \in UserIds :
          \/ users'[id].exists # users[id].exists
          \/ users'[id].expires_at # users[id].expires_at
          \/ users[id].device_id # NULL /\ users'[id].device_id # users[id].device_id
    \/ \E s \in sessions :
          \/ \A s2 \in sessions' : s2.id # s.id
          \/ /\ s.is_active /\ [s EXCEPT !.is_active = FALSE] \in sessions'
             /\ \A p \in Procs : ~(Steps(p) /\ proc[p].auth.sessionId = s.id
                                     /\ proc'[p].op = "logout")

\* C11: every step with an admin effect, and every answer of an admin route other
\* than the 403 of requireAdmin (reads and 4xx included), is taken by a request that
\* passed requireAuth with a resolved role admin; a request without a token is
\* answered 401, an authenticated non-admin on an admin route 403, and a request
\* refused by requireAuth or requireAdmin leaves users, sessions, logins and
\* admin_actions unchanged.
C11_AdminOnly ==
    [][/\ AdminEffect => \E p \in Procs : AdminAuthenticated(p) /\ Steps(p)
       /\ requireAuth(NoToken).status = 401
       /\ \A p \in Procs :
             /\ (Steps(p) /\ proc'[p].op \in AdminOps) => AdminAuthenticated(p)
             /\ (Steps(p) /\ proc[p].pc = "handler" /\ proc[p].auth.role # "admin"
                 /\ proc'[p].op \notin {"me", "logout"})
                => /\ proc'[p].pc = "done" /\ proc'[p].status = 403
                   /\ proc'[p].message = "Admin access required"
                   /\ UNCHANGED <<users, sessions, logins, admin_actions, nextUserId>>
             /\ (Steps(p) /\ proc'[p].op = "auth" /\ proc'[p].pc = "done")
                => /\ proc'[p].status \in {401, 403, 410}
                   /\ UNCHANGED <<users, sessions, logins, admin_actions, nextUserId>>]_vars

\* A user the admin created (the create_user row is in the log) logged in, called an
\* admin route and was answered 403; the log still holds that one row.
C11_Witness ==
    /\ proc[1].pc = "done" /\ proc[1].op = "admin" /\ proc[1].status = 403
    /\ users[2].exists /\ users[2].role = "user"
    /\ \E s \in sessions : s.user_id = 2 /\ s.is_active
    /\ Len(admin_actions) = 1 /\ admin_actions[1].action = "create_user"

\* C17: a DELETE /admin/users/:id answered 200 leaves in admin_actions a new
\* delete_user row with target_user_id null and notes "deleted_user_id=<id>", and
\* every row that was there before is still there.
C17_DeleteUserLogged ==
    [][\A p \in Procs : \A id \in UserIds :
          (/\ Handling(p, "deleteUser") /\ proc'[p].op = "deleteUser"
           /\ proc'[p].status = 200 /\ users[id].exists /\ ~users'[id].exists)
          => /\ Len(admin_actions') = Len(admin_actions) + 1
             /\ LET row == admin_actions'[Len(admin_actions')]
                IN  /\ row.action = "delete_user"
                    /\ row.target_user_id = NullId
                    /\ row.notes = Notes("deleted_user_id", id, "")]_vars

\* Two users share a login once both are trimmed and lower-cased.
SharedLogin ==
    \E a \in UserIds, b \in UserIds :
        /\ a # b /\ users[a].exists /\ users[b].exists
        /\ normalizeLogin(logins[a]) = normalizeLogin(logins[b])

\* C20: in every state no two users share a normalized login, and no input whose
\* normalized login is taken can get any answer but 409 from the INSERT of
\* POST /admin/users; a 409 adds no user row and no log row; a 201 adds exactly one
\* user, with a null device binding and the normalized login.
C20_UniqueLogins ==
    [][/\ ~SharedLogin
       /\ \A p \in Procs : \A l \in RawLogins :
             (Handling(p, "createUser") /\ LoginTaken(normalizeLogin(l)))
             => ~ENABLED (/\ CreateUser(p, l, 6, "user", NullTime)
                          /\ proc'[p].status # 409)
       /\ \A p \in Procs :
             (Handling(p, "createUser") /\ proc'[p].op = "createUser")
             => /\ proc'[p].status = 409
                   => UNCHANGED <<users, logins, admin_actions, sessions>>
                /\ proc'[p].status = 201
                   => \E id \in UserIds :
                         /\ ~users[id].exists /\ users'[id].exists
                         /\ users'[id].device_id = NULL
                         /\ logins'[id] = normalizeLogin(logins'[id])
                         /\ \A o \in UserIds \ {id} :
                               users'[o] = users[o] /\ logins'[o] = logins[o]]_vars

\* The admin created a user, and a later POST /admin/users (a second serial was
\* drawn) was answered 409 while that user still exists.
C20_Witness ==
    /\ proc[1].pc = "done" /\ proc[1].op = "createUser" /\ proc[1].status = 409
    /\ users[2].exists /\ logins[2] = <<"b">>
    /\ nextUserId = 4

\* ---- the login limiter -------------------------------------------------------------
MaxOf(S) == CHOOSE x \in S : \A y \in S : y <= x

\* The instant at which the rate-limit window holding the n-th request of log began:
\* the source's first request opens a window, and so does its first request after
\* the window before has elapsed.
RECURSIVE WindowOf(_, _)
WindowOf(log, n) ==
    LET earlier == {i \in 1 .. n - 1 : log[i].ip = log[n].ip}
    IN  IF earlier = {} THEN log[n].at
        ELSE LET w == WindowOf(log, MaxOf(earlier))
             IN  IF log[n].at > w + loginRateLimitWindowMs THEN log[n].at ELSE w

\* The requests up to the n-th, from its source and in its window, that reached the
\* handler.
ReachedHandler(log, n) ==
    {i \in 1 .. n : /\ log[i].ip = log[n].ip /\ log[i].next
                    /\ WindowOf(log, i) = WindowOf(log, n)}

\* Request p is turned away by the limiter in this step.
TurnedAway(p) ==
    /\ Len(attempts') = Len(attempts) + 1
    /\ Accepts(p) /\ proc'[p].pc = "done" /\ proc'[p].status = 429

\* A 429 carries a Retry-After of at least one second and runs none of the handler.
RejectionIsBare(p) ==
    /\ reply'[p].retryInSeconds >= 1
    /\ proc'[p].user = NoUser /\ proc'[p].decision = NoDecision
    /\ UNCHANGED <<users, sessions, nextSessionId, tokens>>

\* C21 as stated: within one window at most loginRateLimitMax requests of a source
\* reach the handler, whatever their outcomes, and every further one in the window
\* is answered 429 with a Retry-After of at least 1 and runs no login logic.
C21_LimitPerWindow ==
    [][/\ \A n \in DOMAIN attempts' :
             Cardinality(ReachedHandler(attempts', n)) <= loginRateLimitMax
       /\ \A p \in Procs : TurnedAway(p) => RejectionIsBare(p)]_vars

\* The entry of source k counts in this state: it exists and its window has not
\* elapsed.
Counting(k) == loginAttempts[k] # NoEntry /\ loginAttempts[k].resetAt >= now

\* C21, amended: while the entry of a source counts, each request of the source adds
\* one to its count and leaves resetAt alone; the request reaches the handler if the
\* new count is at most loginRateLimitMax, and is otherwise answered 429 with a
\* Retry-After of at least 1, running no login logic. An entry is removed only by a
\* login of its source answered 200, and no request touches another source's entry.
C21_LimitWhileCounting ==
    [][/\ \A k \in Sources :
             (Len(attempts') = Len(attempts) + 1 /\ attempts'[Len(attempts')].ip = k)
             => /\ Counting(k)
                   => /\ loginAttempts'[k] =
                            [loginAttempts[k] EXCEPT !.count = @ + 1]
                      /\ attempts'[Len(attempts')].next
                            <=> loginAttempts'[k].count <= loginRateLimitMax
                /\ \A p \in Procs :
                      (Accepts(p) /\ Steps(p))
                      => IF attempts'[Len(attempts')].next
                         THEN proc'[p].status # 429
                         ELSE TurnedAway(p) /\ RejectionIsBare(p)
                /\ \A o \in Sources \ {k} : loginAttempts'[o] = loginAttempts[o]
       /\ \A k \in Sources :
             (attempts' = attempts /\ loginAttempts'[k] # loginAttempts[k])
             => /\ loginAttempts'[k] = NoEntry
                /\ \E p \in Procs : /\ reqIp[p] = k /\ proc[p].pc = "l_insert"
                                     /\ proc'[p].pc = "done" /\ proc'[p].status = 200]_vars

\* A login from ip1 succeeded; of the three requests that followed from ip1 in the
\* same window two reached the handler and the last was answered 429, Retry-After 2.
C21_Witness ==
    /\ Len(attempts) = 4
    /\ \A n \in 1 .. 4 : attempts[n].ip = "ip1" /\ (attempts[n].next <=> n < 4)
    /\ sessions # {}
    /\ proc[1].pc = "done" /\ proc[1].status = 429
    /\ reply[1].retryInSeconds = 2
    /\ loginAttempts["ip1"].count = loginRateLimitMax + 1

\* The window of source k has elapsed: its entry is still in the Map, resetAt is past.
Elapsed(k) == loginAttempts[k] # NoEntry /\ loginAttempts[k].resetAt < now

\* C22: once the window of a source has elapsed (resetAt < now), its next request
\* reaches the handler and leaves the entry {count: 1, resetAt: now + window},
\* whatever the count had grown to; a request answered 429 leaves resetAt as it was.
C22_RecoversAfterWindow ==
    [][\A k \in Sources :
          (Len(attempts') = Len(attempts) + 1 /\ attempts'[Len(attempts')].ip = k)
          => /\ Elapsed(k)
                => /\ attempts'[Len(attempts')].next
                   /\ loginAttempts'[k] =
                         [count |-> 1, resetAt |-> now + loginRateLimitWindowMs]
                   /\ \A p \in Procs : (Accepts(p) /\ Steps(p)) => proc'[p].status # 429
             /\ ~attempts'[Len(attempts')].next
                => /\ Counting(k)
                   /\ loginAttempts'[k].resetAt = loginAttempts[k].resetAt]_vars

\* ip1 was turned away at its third request, no login ever succeeded, and its fourth
\* request, after the window had elapsed, reached the handler and opened a window.
C22_Witness ==
    /\ Len(attempts) = 4
    /\ \A n \in 1 .. 4 : attempts[n].ip = "ip1" /\ (attempts[n].next <=> n # 3)
    /\ attempts[4].at > attempts[1].at + loginRateLimitWindowMs
    /\ nextSessionId = 1
    /\ loginAttempts["ip1"] =
          [count |-> 1, resetAt |-> attempts[4].at + loginRateLimitWindowMs]

\* The session token t was issued for has been deactivated or its row deleted.
Revoked(t) == \A s \in sessions : s.id = t.sessionId => ~s.is_active

\* C23: in every state a token whose session is inactive or gone is answered 401 by
\* requireAuth, and after any step of any operation its session is still inactive
\* or gone.
C23_RevokedForEver ==
    /\ [](\A t \in tokens : Revoked(t) => requireAuth(t).status = 401)
    /\ [][\A t \in tokens : Revoked(t) => Revoked(t)']_vars

\* A user logged out, logged in again from the same device and holds a token that
\* passes requireAuth; a request with the first token was answered 401.
C23_Witness ==
    /\ proc[1].pc = "done" /\ proc[1].op = "auth"
    /\ proc[1].status = 401 /\ proc[1].message = "Session inactive"
    /\ \E t \in tokens, t2 \in tokens :
          /\ t.userId = t2.userId /\ t.deviceId = t2.deviceId
          /\ t.sessionId < t2.sessionId
          /\ users[t.userId].role = "user" /\ users[t.userId].device_id = t.deviceId
          /\ Revoked(t)
          /\ requireAuth(t2).status = 200

\* C24: a request of login, requireAuth or logout that ended because a query threw
\* is answered 500; and a refusal by policy keeps its status: a login that
\* evaluateDeviceAccess refuses is answered with the decision's 403 or 410, and a
\* request refused by requireAuth for device or expiry is answered 403 or 410.
C24_StorageFailureIs500 ==
    [][\A p \in Procs :
          /\ (Steps(p) /\ reply'[p].thrown) => proc'[p].status = 500
          /\ (Evaluated(p) /\ ~proc'[p].decision.ok)
             => /\ proc'[p].status = proc'[p].decision.status
                /\ proc'[p].status \in {403, 410}
          /\ (Steps(p) /\ proc'[p].status \in {403, 410}) => ~reply'[p].thrown]_vars

\* C26: the sweep's step reports as affectedSessions the number of sessions it
\* deactivated (deactivate) or removed (delete), and in delete mode as expiredUsers
\* the number of users it deleted; the report of deactivate mode gives as
\* expiredUsers the number of expired users, and the sweep has covered each of them
\* (none has an active session).
C26_CleanupCounts ==
    [][\A p \in Procs :
          /\ (Handling(p, "cleanup") /\ proc'[p].op = "cleanup")
             => /\ reply'[p].affectedSessions = Cardinality(sessions \ sessions')
                /\ proc'[p].pc = "done"
                   => reply'[p].expiredUsers =
                         Cardinality({id \in UserIds : users[id].exists /\ ~users'[id].exists})
          /\ (proc[p].pc = "cleanup_count" /\ proc'[p].pc = "done")
             => /\ reply'[p].affectedSessions = reply[p].affectedSessions
                /\ reply'[p].expiredUsers =
                      Cardinality({id \in UserIds : ExpiredForCleanup(users[id])})
                /\ \A s \in sessions : ExpiredForCleanup(users[s.user_id]) => ~s.is_active]_vars

\* The step of request p, leaving admin_actions and the warning aside, is the step
\* of an admin handler that reached its response.
HandlerStep(p) ==
    \/ \E l \in RawLogins, n \in PasswordLengths, r \in RoleInputs, e \in ExpiryInputs :
          CreateUser(p, l, n, r, e)
    \/ ResetDeviceSessions(p)
    \/ \E u \in UserIds : DeleteUser(p, u)
    \/ \E u \in UserIds, b \in ExtendModes : Extend(p, u, b)
    \/ \E x \in SessionIds : DeleteSession(p, x)
    \/ \E m \in {"deactivate", "delete"} : CleanupExpired(p, m)

\* C25: a handler whose log write failed answers as it does when the write succeeds,
\* with a success status and the handler's own effect on users and sessions; and a
\* handler that answers 400, 404, 409 or 500 has not called logAdminAction: no row
\* is added and nothing is warned about.
C25_LogIsBestEffort ==
    [][\A p \in Procs :
          /\ (Steps(p) /\ reply'[p].warned)
             => /\ proc'[p].status \in SuccessStatus
                /\ HandlerStep(p)
          /\ (Steps(p) /\ proc'[p].pc = "done" /\ proc'[p].op \in AdminWrites
              /\ proc'[p].status \in {400, 404, 409, 500})
             => /\ Len(admin_actions') = Len(admin_actions)
                /\ ~reply'[p].warned]_vars

\* POST /admin/users answered 201 and the user is there, though the log write
\* failed: the warning was given and admin_actions is empty.
C25_Witness ==
    /\ proc[1].pc = "done" /\ proc[1].op = "createUser" /\ proc[1].status = 201
    /\ reply[1].warned
    /\ users[2].exists /\ logins[2] = <<"b">>
    /\ admin_actions = <<>>

\* Token t is accepted by requireAuth in this state.
Passes(t) == requireAuth(t).status = 200

\* C27: a user-role account is not used from two devices at once: of the tokens of
\* one user-role account that pass requireAuth in a state, all carry the same
\* deviceId.
C27_OneDeviceAtOnce ==
    \A t1, t2 \in tokens :
        (/\ t1.userId = t2.userId
         /\ users[t1.userId].exists /\ users[t1.userId].role = "user"
         /\ Passes(t1) /\ Passes(t2))
        => t1.deviceId = t2.deviceId

\* Request p has answered op with status.
Answered(p, op, status) ==
    proc[p].pc = "done" /\ proc[p].op = op /\ proc[p].status = status

\* C28: once reset-device of user 2 and a login of user 2 that was to bind its
\* device have both answered 200, a binding that is in place (it was written after
\* the reset cleared it) comes with an active session of the bound device.
C28_BindingLoginKeepsSession ==
    \A p, q \in Procs :
        (/\ Answered(p, "reset", 200)
         /\ Answered(q, "login", 200) /\ proc[q].decision.shouldBindDevice
         /\ users[2].device_id # NULL)
        => \E s \in sessions :
              s.user_id = 2 /\ s.is_active /\ s.device_id = users[2].device_id

\* C29: a device is bound only by a login that also creates a session: when no
\* request is in flight (the last login has answered, whatever its status), every
\* bound account has a session of the bound device.
C29_BoundOnlyWithSession ==
    (\A p \in Procs : Free(p))
    => \A u \in UserIds :
          (users[u].exists /\ users[u].device_id # NULL)
          => \E s \in sessions : s.user_id = u /\ s.device_id = users[u].device_id

\* ---- the upstream proxy ------------------------------------------------------------
PendingFor(k) == {i \in DOMAIN qrTasks : qrTasks[i].terminal = k /\ Pending(i)}

\* C30 as stated: the Map has an entry for a terminal exactly while an upstream task
\* for it is pending, and at most one task per terminal is pending.
C30_EntryExactlyWhilePending ==
    \A k \in TerminalKeys :
        /\ qrStartInFlight[k] # NoTask <=> PendingFor(k) # {}
        /\ Cardinality(PendingFor(k)) <= 1

\* The calls that created a task for terminal k and have not resumed from it.
CreatorsOf(k) ==
    {c \in Callers : qrCalls[c].pc = "creator" /\ qrTasks[qrCalls[c].task].terminal = k}

\* C30: the Map has an entry for a terminal from the start of an upstream task for
\* it until the call that started the task resumes after the task settled; the
\* entry is that task, and every pending task is the entry of its terminal, so
\* concurrent calls share one task. A call that finds an entry returns its task and
\* starts none; a call that finds no entry starts a pending task; the creating call
\* removes the entry when it resumes, whether the task resolved or was rejected; and
\* every call settles as its task did.
C30_EntryUntilCreatorResumes ==
    /\ [](\A k \in TerminalKeys :
             /\ qrStartInFlight[k] # NoTask <=> CreatorsOf(k) # {}
             /\ \A c \in CreatorsOf(k) : qrCalls[c].task = qrStartInFlight[k]
             /\ \A i \in PendingFor(k) : qrStartInFlight[k] = i)
    /\ [][\A c \in Callers :
             LET before == qrCalls[c]
                 after == qrCalls'[c]
             IN  /\ (after.pc = "joined" /\ before.pc # "joined")
                    => /\ qrTasks' = qrTasks /\ qrStartInFlight' = qrStartInFlight
                       /\ after.task = qrStartInFlight[qrTasks[after.task].terminal]
                 /\ (after.pc = "creator" /\ before.pc # "creator")
                    => /\ after.task = Len(qrTasks) + 1
                       /\ qrTasks'[after.task].state = "first"
                       /\ qrStartInFlight[qrTasks'[after.task].terminal] = NoTask
                 /\ (before.pc = "creator" /\ after.pc = "settled")
                    => qrStartInFlight'[qrTasks[before.task].terminal] = NoTask
                 /\ (before.pc \in {"creator", "joined"} /\ after.pc = "settled")
                    => /\ after.task = before.task
                       /\ after.outcome = qrTasks[before.task].state
                       /\ after.outcome \in {"resolved", "rejected"}]_vars

\* The first task for terminal T was rejected and its creator got the rejection; a
\* later call started a second task for T, which is pending and in the Map, and a
\* third call shares it.
C30_Witness ==
    /\ Len(qrTasks) = 2
    /\ qrTasks[1] = Task(<<"T">>, "rejected")
    /\ qrTasks[2] = Task(<<"T">>, "retry")
    /\ qrStartInFlight[<<"T">>] = 2
    /\ qrCalls[1] = Call("settled", 1, "rejected", "")
    /\ qrCalls[2] = Call("creator", 2, "none", "")
    /\ qrCalls[3] = Call("joined", 2, "none", "")

====
